---- MODULE Spec2Model ----
(***************************************************************************)
(* Class schedules, the dated attendance sessions created from them and    *)
(* the attendance rows of each session: schedule.service.js,               *)
(* schedule.helper.js, session.service.js, session.helper.js,              *)
(* attendance.service.js and attendance.helper.js as one state machine     *)
(* over the persistent store.                                              *)
(*                                                                         *)
(* Times of day ("HH:MM:SS", fixed width, so that the store's string       *)
(* comparison is the numeric one) are minutes since midnight; instants     *)
(* (Date values) are minutes of local wall-clock time since day 0.         *)
(***************************************************************************)
EXTENDS Integers, Sequences, FiniteSets, TLC

VARIABLES
    schedules,        \* classSchedule table: id -> row
    nextScheduleId,   \* classSchedule autoincrement (ids of deleted rows are not reused)
    students,         \* class.students relation: classId -> set of student ids
    sessions,         \* attendanceSession table: id -> row
    attendances,      \* attendance table: id -> row
    now,              \* the clock read by new Date()
    calls,            \* the calls in progress, when calls overlap: caller -> its position and locals
    checkIns          \* history: attendance id -> the number of studentCheckIn calls that succeeded on it

vars == <<schedules, nextScheduleId, students, sessions, attendances, now, calls, checkIns>>

----------------------------------------------------------------------------
(* Bounds of the model *)

MaxSchedules == 2      \* schedule rows ever created
MaxSessions == 2       \* session rows ever created
MaxBatch == 2          \* updates in one markAttendance call
MaxCheckIns == 2       \* successful check-ins counted per attendance row

----------------------------------------------------------------------------
(* Values *)

Null == <<>>
Some(v) == <<v>>
Val(o) == o[1]
\* JavaScript's `a || b` on an optional value
OrElse(o, d) == IF o = Null THEN d ELSE Val(o)

Teachers == {1, 2}
StudentIds == {1, 2}
Classes == {1, 2}

TerminalStatuses == {"completed", "cancelled"}
SessionStatuses == {"ongoing", "completed", "cancelled"}
AttendanceStatuses == {"present", "absent", "late", "excused"}

MinutesPerDay == 1440
LateThresholdMinutes == 15

\* the ids in use, as the store's autoincrement hands them out
NextSessionId == Cardinality(DOMAIN sessions) + 1
NextAttendanceId == Cardinality(DOMAIN attendances) + 1

----------------------------------------------------------------------------
(* schedule.helper.js *)

\* variant of TimeOverlap: only the first range clause
TimeOverlapStartOnly(e, startTime, endTime) ==
    e.startTime <= startTime /\ e.endTime > startTime

\* variant of TimeOverlap: gte for gt in the first range clause
TimeOverlapClosed(e, startTime, endTime) ==
    \/ (e.startTime <= startTime /\ e.endTime >= startTime)
    \/ (e.startTime < endTime /\ e.endTime >= endTime)
    \/ (e.startTime >= startTime /\ e.endTime <= endTime)

\* the OR of the three range clauses of the findFirst query
TimeOverlap(e, startTime, endTime) ==
    \/ (e.startTime <= startTime /\ e.endTime > startTime)
    \/ (e.startTime < endTime /\ e.endTime >= endTime)
    \/ (e.startTime >= startTime /\ e.endTime <= endTime)

\* variant of InConflictScope: excludeScheduleId is not looked at
InConflictScopeNoExclude(id, p, excludeScheduleId) ==
    /\ schedules[id].dayOfWeek = p.dayOfWeek
    /\ schedules[id].academicPeriodId = p.academicPeriodId
    /\ schedules[id].isActive

\* whereClause: same day, same period, active, not the excluded row
InConflictScope(id, p, excludeScheduleId) ==
    /\ schedules[id].dayOfWeek = p.dayOfWeek
    /\ schedules[id].academicPeriodId = p.academicPeriodId
    /\ schedules[id].isActive
    /\ (excludeScheduleId # Null => id # Val(excludeScheduleId))

TeacherConflict(p, excludeScheduleId) ==
    \E id \in DOMAIN schedules :
        /\ InConflictScope(id, p, excludeScheduleId)
        /\ schedules[id].teacherId = p.teacherId
        /\ TimeOverlap(schedules[id], p.startTime, p.endTime)

ClassConflict(p, excludeScheduleId) ==
    \E id \in DOMAIN schedules :
        /\ InConflictScope(id, p, excludeScheduleId)
        /\ schedules[id].classId = p.classId
        /\ TimeOverlap(schedules[id], p.startTime, p.endTime)

\* variant of checkTimeConflict: the class scan first
checkTimeConflictClassFirst(p, excludeScheduleId) ==
    IF ClassConflict(p, excludeScheduleId) THEN "class"
    ELSE IF TeacherConflict(p, excludeScheduleId) THEN "teacher"
    ELSE "none"

\* the teacher scan first, then the class scan; "none" is {hasConflict: false}
checkTimeConflict(p, excludeScheduleId) ==
    IF TeacherConflict(p, excludeScheduleId) THEN "teacher"
    ELSE IF ClassConflict(p, excludeScheduleId) THEN "class"
    ELSE "none"

----------------------------------------------------------------------------
(* schedule.service.js *)

ScheduleRow(c) ==
    [classId |-> c.classId, teacherId |-> c.teacherId, dayOfWeek |-> c.dayOfWeek,
     startTime |-> c.startTime, endTime |-> c.endTime,
     academicPeriodId |-> c.academicPeriodId, isActive |-> TRUE]

\* what the call answers: "ok", or the error it throws
createScheduleOutcome(c) ==
    IF checkTimeConflict(c, Null) # "none" THEN "Conflict" ELSE "ok"

\* a call that throws has written nothing: it leaves every variable as it is
createSchedule(c) ==
    /\ nextScheduleId <= MaxSchedules
    /\ IF createScheduleOutcome(c) = "ok"
       THEN /\ schedules' = [id \in DOMAIN schedules \cup {nextScheduleId} |->
                                IF id = nextScheduleId THEN ScheduleRow(c)
                                ELSE schedules[id]]
            /\ nextScheduleId' = nextScheduleId + 1
            /\ UNCHANGED <<students, sessions, attendances, now, calls, checkIns>>
       ELSE UNCHANGED vars

\* variant of bulkCreateSchedulesOutcome: only the first candidate is checked
bulkCreateSchedulesOutcomeFirstOnly(batch) ==
    IF checkTimeConflict(batch[1], Null) # "none" THEN "Conflict" ELSE "ok"

\* the loop asks checkTimeConflict about each candidate in turn, against the
\* stored rows only; the first conflict throws (status 400)
bulkCreateSchedulesOutcome(batch) ==
    IF \E i \in 1..Len(batch) : checkTimeConflict(batch[i], Null) # "none"
    THEN "Conflict" ELSE "ok"

\* then one transaction creates every candidate of the batch, active, in order
bulkCreateSchedules(batch) ==
    IF bulkCreateSchedulesOutcome(batch) = "ok"
       THEN /\ nextScheduleId + Len(batch) - 1 <= MaxSchedules
            /\ schedules' = [id \in DOMAIN schedules
                                    \cup (nextScheduleId..(nextScheduleId + Len(batch) - 1)) |->
                                IF id >= nextScheduleId
                                THEN ScheduleRow(batch[id - nextScheduleId + 1])
                                ELSE schedules[id]]
            /\ nextScheduleId' = nextScheduleId + Len(batch)
            /\ UNCHANGED <<students, sessions, attendances, now, calls, checkIns>>
       ELSE UNCHANGED vars

\* the fields an update may carry; each is Null (not given) or Some(value)
UpdateFields == {"classId", "teacherId", "dayOfWeek", "startTime", "endTime",
                 "academicPeriodId", "isActive"}

\* fields whose presence triggers the conflict check
ChecksConflict(u) ==
    \/ u.dayOfWeek # Null
    \/ u.startTime # Null
    \/ u.endTime # Null
    \/ u.teacherId # Null
    \/ u.classId # Null

UpdateCandidate(u, e) ==
    [teacherId |-> OrElse(u.teacherId, e.teacherId),
     classId |-> OrElse(u.classId, e.classId),
     dayOfWeek |-> OrElse(u.dayOfWeek, e.dayOfWeek),
     startTime |-> OrElse(u.startTime, e.startTime),
     endTime |-> OrElse(u.endTime, e.endTime),
     academicPeriodId |-> OrElse(u.academicPeriodId, e.academicPeriodId)]

\* prisma update with data: updates
ApplyUpdates(u, e) ==
    [f \in UpdateFields |-> OrElse(u[f], e[f])]

updateScheduleOutcome(scheduleId, u) ==
    IF \A f \in UpdateFields : u[f] = Null THEN "Validation"
    ELSE IF scheduleId \notin DOMAIN schedules THEN "NotFound"
    ELSE IF /\ ChecksConflict(u)
            /\ checkTimeConflict(UpdateCandidate(u, schedules[scheduleId]),
                                 Some(scheduleId)) # "none"
    THEN "Conflict"
    ELSE "ok"

updateSchedule(scheduleId, u) ==
    IF updateScheduleOutcome(scheduleId, u) = "ok"
    THEN /\ schedules' = [schedules EXCEPT
                            ![scheduleId] = ApplyUpdates(u, schedules[scheduleId])]
         /\ UNCHANGED <<nextScheduleId, students, sessions, attendances, now, calls, checkIns>>
    ELSE UNCHANGED vars

\* variant of SessionCount: only the sessions still ongoing are counted
SessionCountOngoing(scheduleId) ==
    Cardinality({s \in DOMAIN sessions :
        sessions[s].classScheduleId = scheduleId /\ sessions[s].status = "ongoing"})

\* _count.attendanceSessions
SessionCount(scheduleId) ==
    Cardinality({s \in DOMAIN sessions : sessions[s].classScheduleId = scheduleId})

deleteScheduleOutcome(scheduleId, softDelete) ==
    IF scheduleId \notin DOMAIN schedules THEN "NotFound"
    ELSE IF SessionCount(scheduleId) > 0 /\ ~softDelete THEN "Conflict"
    ELSE "ok"

deleteSchedule(scheduleId, softDelete) ==
    IF deleteScheduleOutcome(scheduleId, softDelete) = "ok"
    THEN /\ IF softDelete \/ SessionCount(scheduleId) > 0
            THEN schedules' = [schedules EXCEPT ![scheduleId].isActive = FALSE]
            ELSE schedules' = [id \in DOMAIN schedules \ {scheduleId} |-> schedules[id]]
         /\ UNCHANGED <<nextScheduleId, students, sessions, attendances, now, calls, checkIns>>
    ELSE UNCHANGED vars

----------------------------------------------------------------------------
(* The collaborators: the class roster and the clock *)

\* a student joins or leaves a class (done outside these services)
changeRoster(classId, studentId) ==
    /\ students' = [students EXCEPT ![classId] =
                        IF studentId \in @ THEN @ \ {studentId} ELSE @ \cup {studentId}]
    /\ UNCHANGED <<schedules, nextScheduleId, sessions, attendances, now, calls, checkIns>>

\* time passes, to the next of the given instants
tick(instants) ==
    /\ \E t \in instants :
          /\ t > now
          /\ \A u \in instants : u > now => t <= u
          /\ now' = t
    /\ UNCHANGED <<schedules, nextScheduleId, students, sessions, attendances, calls, checkIns>>

----------------------------------------------------------------------------
(* session.helper.js, attendance.helper.js *)

\* variant of OwnsSession: the slot's present teacher is taken for the owner
OwnsSessionBySlot(session, teacherId) ==
    schedules[session.classScheduleId].teacherId = teacherId

\* validateSessionOwnership: passes iff the caller created the session
OwnsSession(session, teacherId) == session.createdBy = teacherId

\* variant of SessionLocked: the guard for cancelled sessions is missing
SessionLockedCompletedOnly(session) == session.status = "completed"

\* variant of validateSessionActive: the guard for cancelled sessions is missing
validateSessionActiveCompletedOnly(session) == ~(session.status = "completed")

\* the two guards of updateSessionStatus: a completed or cancelled session is not modified
SessionLocked(session) ==
    session.status = "completed" \/ session.status = "cancelled"

\* validateSessionActive: returns true, or throws for a completed or cancelled session
validateSessionActive(session) ==
    ~(session.status = "completed" \/ session.status = "cancelled")

\* new Date("YYYY-MM-DD"): midnight of that day
DateToInstant(date) == date * MinutesPerDay

\* toISOString().split('T')[0]: the day an instant falls on
IsoDate(instant) == instant \div MinutesPerDay

\* new Date(`${sessionDateStr}T${scheduledStartTime}`)
ScheduledDateTime(sessionDate, scheduledStartTime) ==
    IsoDate(sessionDate) * MinutesPerDay + scheduledStartTime

\* variant of determineAttendanceStatus: < for <=
determineAttendanceStatusStrict(checkInTime, sessionDate, scheduledStartTime, lateThresholdMinutes) ==
    IF checkInTime < ScheduledDateTime(sessionDate, scheduledStartTime) + lateThresholdMinutes
    THEN "present"
    ELSE "late"

determineAttendanceStatus(checkInTime, sessionDate, scheduledStartTime, lateThresholdMinutes) ==
    IF checkInTime <= ScheduledDateTime(sessionDate, scheduledStartTime) + lateThresholdMinutes
    THEN "present"
    ELSE "late"

----------------------------------------------------------------------------
(* session.service.js *)

\* variant of NotesOrNull: the empty string is stored as it is
NotesKept(notes) == notes

\* `notes || null`: the empty string is stored as null
NotesOrNull(notes) == IF notes = Null \/ notes = Some("") THEN Null ELSE notes

RECURSIVE InOrder(_)
\* the members of a set of ids, ascending: the order the rows are inserted in
InOrder(S) ==
    IF S = {} THEN <<>>
    ELSE LET m == CHOOSE x \in S : \A y \in S : x <= y
         IN  <<m>> \o InOrder(S \ {m})

\* findFirst({id, teacherId: profileId, isActive: true})
OwnedActiveSchedule(classScheduleId, profileId) ==
    /\ classScheduleId \in DOMAIN schedules
    /\ schedules[classScheduleId].teacherId = profileId
    /\ schedules[classScheduleId].isActive

\* include: {class: {include: {students}}}: the students of the schedule's class
ClassStudents(classScheduleId) == students[schedules[classScheduleId].classId]

\* variant of SessionExists: only ongoing sessions count
SessionExistsOngoing(classScheduleId, date) ==
    \E s \in DOMAIN sessions :
        /\ sessions[s].classScheduleId = classScheduleId
        /\ sessions[s].date = date * MinutesPerDay
        /\ sessions[s].status = "ongoing"

\* findFirst({classScheduleId, date})
SessionExists(classScheduleId, date) ==
    \E s \in DOMAIN sessions :
        /\ sessions[s].classScheduleId = classScheduleId
        /\ sessions[s].date = DateToInstant(date)

NewSession(classScheduleId, date, notes, profileId) ==
    [classScheduleId |-> classScheduleId, date |-> DateToInstant(date),
     status |-> "ongoing", startedAt |-> now, endedAt |-> Null,
     notes |-> NotesOrNull(notes), createdBy |-> profileId]

\* variant of NewAttendance: the row is created present
NewAttendancePresent(sessionId, studentId) ==
    [attendanceSessionId |-> sessionId, studentId |-> studentId, status |-> "present",
     checkInTime |-> Null, attendanceMethod |-> Null, faceConfidence |-> Null,
     markedBy |-> Null, notes |-> Null]

\* one row of attendances.create: only studentId and status are given
NewAttendance(sessionId, studentId) ==
    [attendanceSessionId |-> sessionId, studentId |-> studentId, status |-> "absent",
     checkInTime |-> Null, attendanceMethod |-> Null, faceConfidence |-> Null,
     markedBy |-> Null, notes |-> Null]

\* the nested create: the session row and one attendance row per student of the class
InsertSession(classScheduleId, date, notes, profileId, classStudents) ==
    LET sid == NextSessionId
        roster == InOrder(classStudents)
        first == NextAttendanceId
        newIds == first .. (first + Len(roster) - 1)
    IN  /\ sessions' = [s \in DOMAIN sessions \cup {sid} |->
                           IF s = sid THEN NewSession(classScheduleId, date, notes, profileId)
                           ELSE sessions[s]]
        /\ attendances' = [a \in DOMAIN attendances \cup newIds |->
                              IF a \in newIds THEN NewAttendance(sid, roster[a - first + 1])
                              ELSE attendances[a]]
        /\ checkIns' = [a \in DOMAIN attendances \cup newIds |->
                           IF a \in newIds THEN 0 ELSE checkIns[a]]

createSessionOutcome(classScheduleId, date, profileId) ==
    IF ~OwnedActiveSchedule(classScheduleId, profileId) THEN "NotFound"
    ELSE IF SessionExists(classScheduleId, date) THEN "Conflict"
    ELSE "ok"

createSession(classScheduleId, date, notes, profileId) ==
    /\ NextSessionId <= MaxSessions
    /\ IF createSessionOutcome(classScheduleId, date, profileId) = "ok"
       THEN /\ InsertSession(classScheduleId, date, notes, profileId,
                              ClassStudents(classScheduleId))
            /\ UNCHANGED <<schedules, nextScheduleId, students, now, calls>>
       ELSE UNCHANGED vars

\* the values updateSessionStatusSchema admits
ValidStatusRequest(status) == status \in {"ongoing", "completed", "cancelled"}

\* variant of EndedAtFor: a cancellation does not stamp endedAt
EndedAtCompletedOnly(status) ==
    IF status = "completed" THEN Some(now) ELSE Null

\* variant of EndedAtFor: every update stamps endedAt
EndedAtAlways(status) == Some(now)

\* endedAt: status === 'completed' || status === 'cancelled' ? new Date() : null
EndedAtFor(status) ==
    IF status = "completed" \/ status = "cancelled" THEN Some(now) ELSE Null

\* the data of attendanceSession.update
UpdatedSession(row, status) ==
    [row EXCEPT !.status = status, !.endedAt = EndedAtFor(status)]

updateSessionStatusOutcome(sessionId, status, profileId) ==
    IF ~ValidStatusRequest(status) THEN "Validation"
    ELSE IF sessionId \notin DOMAIN sessions THEN "NotFound"
    ELSE IF ~OwnsSession(sessions[sessionId], profileId) THEN "Forbidden"
    ELSE IF SessionLocked(sessions[sessionId]) THEN "InvalidTransition"
    ELSE "ok"

\* the body shared by updateSessionStatus, endSession and cancelSession
UpdateStatusAs(op, sessionId, status, profileId) ==
    IF updateSessionStatusOutcome(sessionId, status, profileId) = "ok"
    THEN /\ sessions' = [sessions EXCEPT ![sessionId] = UpdatedSession(@, status)]
         /\ UNCHANGED <<schedules, nextScheduleId, students, attendances, now, calls, checkIns>>
    ELSE UNCHANGED vars

updateSessionStatus(sessionId, status, profileId) ==
    UpdateStatusAs("updateSessionStatus", sessionId, status, profileId)

endSession(sessionId, profileId) ==
    UpdateStatusAs("endSession", sessionId, "completed", profileId)

cancelSession(sessionId, profileId) ==
    UpdateStatusAs("cancelSession", sessionId, "cancelled", profileId)

----------------------------------------------------------------------------
(* attendance.service.js *)

\* the statuses markAttendanceSchema and markSingleAttendanceSchema admit
ValidAttendanceStatus(status) == status \in {"present", "absent", "late", "excused"}

\* variant of MarkCheckInTime: every marking stamps the time
MarkCheckInTimeAlways(status) == Some(now)

\* checkInTime: status !== 'absent' ? new Date() : null
MarkCheckInTime(status) == IF status # "absent" THEN Some(now) ELSE Null

\* variant of MarkedRow: the teacher's id is written to studentId
MarkedRowWrongColumn(row, status, notes, profileId) ==
    [row EXCEPT !.status = status,
                !.checkInTime = MarkCheckInTime(status),
                !.attendanceMethod = Some("manual"),
                !.studentId = profileId,
                !.notes = NotesOrNull(notes)]

\* the data of the attendance.update of markAttendance and markSingleAttendance
MarkedRow(row, status, notes, profileId) ==
    [row EXCEPT !.status = status,
                !.checkInTime = MarkCheckInTime(status),
                !.attendanceMethod = Some("manual"),
                !.markedBy = Some(profileId),
                !.notes = NotesOrNull(notes)]

\* variant of UpdateTargetExists: the row is looked up by id alone
UpdateTargetById(att, sessionId) == att.attendanceId \in DOMAIN attendances

\* where: {id: att.attendanceId, attendanceSessionId: sessionId}
UpdateTargetExists(att, sessionId) ==
    /\ att.attendanceId \in DOMAIN attendances
    /\ attendances[att.attendanceId].attendanceSessionId = sessionId

RECURSIVE MarkAll(_, _, _)
\* the updates of the transaction, applied in the order of the request
MarkAll(rows, atts, profileId) ==
    IF atts = <<>> THEN rows
    ELSE LET att == Head(atts)
         IN  MarkAll([rows EXCEPT ![att.attendanceId] =
                          MarkedRow(@, att.status, att.notes, profileId)],
                     Tail(atts), profileId)

markAttendanceOutcome(sessionId, atts, profileId) ==
    IF \/ Len(atts) < 1
       \/ \E i \in 1..Len(atts) : ~ValidAttendanceStatus(atts[i].status)
    THEN "Validation"
    ELSE IF sessionId \notin DOMAIN sessions THEN "NotFound"
    ELSE IF sessions[sessionId].createdBy # profileId THEN "Forbidden"
    ELSE IF ~validateSessionActive(sessions[sessionId]) THEN "InvalidTransition"
    \* an update of the transaction that finds no row rolls all of it back
    ELSE IF \E i \in 1..Len(atts) : ~UpdateTargetExists(atts[i], sessionId) THEN "NotFound"
    ELSE "ok"

markAttendance(sessionId, atts, profileId) ==
    IF markAttendanceOutcome(sessionId, atts, profileId) = "ok"
    THEN /\ attendances' = MarkAll(attendances, atts, profileId)
         /\ UNCHANGED <<schedules, nextScheduleId, students, sessions, now, calls, checkIns>>
    ELSE UNCHANGED vars

\* attendance.attendanceSession
SessionOf(attendanceId) == sessions[attendances[attendanceId].attendanceSessionId]

markSingleAttendanceOutcome(attendanceId, status, profileId) ==
    IF ~ValidAttendanceStatus(status) THEN "Validation"
    ELSE IF attendanceId \notin DOMAIN attendances THEN "NotFound"
    ELSE IF SessionOf(attendanceId).createdBy # profileId THEN "Forbidden"
    ELSE IF ~validateSessionActive(SessionOf(attendanceId)) THEN "InvalidTransition"
    ELSE "ok"

markSingleAttendance(attendanceId, status, notes, profileId) ==
    IF markSingleAttendanceOutcome(attendanceId, status, profileId) = "ok"
    THEN /\ attendances' = [attendances EXCEPT ![attendanceId] =
                               MarkedRow(@, status, notes, profileId)]
         /\ UNCHANGED <<schedules, nextScheduleId, students, sessions, now, calls, checkIns>>
    ELSE UNCHANGED vars

\* session.status !== 'ongoing'
NotActiveForCheckIn(session) == session.status # "ongoing"

\* attendance.status !== 'absent'
AlreadyCheckedIn(row) == row.status # "absent"

\* findFirst({attendanceSessionId, studentId}): the ids of the matching rows
AttendanceOf(sessionId, studentId) ==
    {a \in DOMAIN attendances :
        /\ attendances[a].attendanceSessionId = sessionId
        /\ attendances[a].studentId = studentId}

\* `faceConfidence || null`: a confidence of 0 is stored as null
ConfidenceOrNull(faceConfidence) ==
    IF faceConfidence = Null \/ faceConfidence = Some(0) THEN Null ELSE faceConfidence

\* the data of the attendance.update of studentCheckIn
CheckedInRow(row, session, method, faceConfidence) ==
    [row EXCEPT !.status = determineAttendanceStatus(now, session.date,
                               schedules[session.classScheduleId].startTime,
                               LateThresholdMinutes),
                !.checkInTime = Some(now),
                !.attendanceMethod = Some(OrElse(method, "face_recognition")),
                !.faceConfidence = ConfidenceOrNull(faceConfidence)]

\* the row findFirst returns
FirstAttendance(sessionId, studentId) ==
    CHOOSE a \in AttendanceOf(sessionId, studentId) :
        \A b \in AttendanceOf(sessionId, studentId) : a <= b

studentCheckInOutcome(sessionId, studentId) ==
    IF sessionId \notin DOMAIN sessions THEN "NotFound"
    ELSE IF NotActiveForCheckIn(sessions[sessionId]) THEN "Conflict"
    ELSE IF AttendanceOf(sessionId, studentId) = {} THEN "NotFound"
    ELSE IF AlreadyCheckedIn(attendances[FirstAttendance(sessionId, studentId)]) THEN "Conflict"
    ELSE "ok"

studentCheckIn(sessionId, studentId, method, faceConfidence) ==
    IF studentCheckInOutcome(sessionId, studentId) = "ok"
    THEN /\ attendances' = [attendances EXCEPT
                               ![FirstAttendance(sessionId, studentId)] =
                                   CheckedInRow(@, sessions[sessionId], method,
                                                faceConfidence)]
         /\ checkIns' = [checkIns EXCEPT ![FirstAttendance(sessionId, studentId)] =
                            IF @ < MaxCheckIns THEN @ + 1 ELSE @]
         /\ UNCHANGED <<schedules, nextScheduleId, students, sessions, now, calls>>
    ELSE UNCHANGED vars

\* variant of getActiveSessions: the status of the session is not looked at
getActiveSessionsAnyStatus(profileId) ==
    {attendances[a].attendanceSessionId :
        a \in {a \in DOMAIN attendances :
                  /\ attendances[a].studentId = profileId
                  /\ attendances[a].status = "absent"}}

\* role student: attendance.findMany where studentId, status absent and the
\* session ongoing; the session ids of the rows returned
getActiveSessions(profileId) ==
    {attendances[a].attendanceSessionId :
        a \in {a \in DOMAIN attendances :
                  /\ attendances[a].studentId = profileId
                  /\ attendances[a].status = "absent"
                  /\ sessions[attendances[a].attendanceSessionId].status = "ongoing"}}

----------------------------------------------------------------------------
(* Attendance statistics. JavaScript numbers are IEEE-754 doubles: a      *)
(* positive double is kept as its 53 significand bits, first bit 1, and   *)
(* its exponent e, and stands for 0.m * 2^e                               *)

SignificandBits == 53

\* the arithmetic on bits is done nine bits at a time
ChunkBits == 9

\* zero bits after the binary point of p / n, before its first one bit (0 < p < n)
LeadingZeros(p, n) ==
    CHOOSE z \in 0..20 : p * 2 ^ (z + 1) >= n /\ p * 2 ^ z < n

RECURSIVE ChunkRemainder(_, _, _)
\* what is left of p / n after its first j chunks of bits
ChunkRemainder(p, n, j) ==
    IF j = 0 THEN p ELSE (ChunkRemainder(p, n, j - 1) * 2 ^ ChunkBits) % n

\* the i-th bit after the binary point of p / n (p < n)
QuotientBit(p, n, i) ==
    LET chunk == (ChunkRemainder(p, n, (i - 1) \div ChunkBits) * 2 ^ ChunkBits) \div n
    IN  (chunk \div 2 ^ (ChunkBits - 1 - ((i - 1) % ChunkBits))) % 2

\* what is left of p / n after its first k bits
RemainderAfter(p, n, k) ==
    (ChunkRemainder(p, n, k \div ChunkBits) * 2 ^ (k % ChunkBits)) % n

\* the bits plus one, in the same width (not all bits are one)
Increment(bits) ==
    LET lastZero == CHOOSE i \in 1..Len(bits) :
                        bits[i] = 0 /\ \A j \in (i + 1)..Len(bits) : bits[j] = 1
    IN  [i \in 1..Len(bits) |->
            IF i < lastZero THEN bits[i] ELSE IF i = lastZero THEN 1 ELSE 0]

\* round to nearest, ties to even: the rounding of every double operation
RoundToNearestEven(m, guard, sticky, e) ==
    IF guard = 1 /\ (sticky \/ m[Len(m)] = 1)
    THEN IF \A i \in 1..Len(m) : m[i] = 1
         THEN [m |-> [i \in 1..Len(m) |-> IF i = 1 THEN 1 ELSE 0], e |-> e + 1]
         ELSE [m |-> Increment(m), e |-> e]
    ELSE [m |-> m, e |-> e]

\* the double 1
One == [m |-> [i \in 1..SignificandBits |-> IF i = 1 THEN 1 ELSE 0], e |-> 1]

\* presentCount / attendances.length, for 0 < p <= n
Divide(p, n) ==
    IF p = n THEN One
    ELSE LET z == LeadingZeros(p, n)
             bits == [i \in 1..(z + SignificandBits + 1) |-> QuotientBit(p, n, i)]
         IN  RoundToNearestEven(SubSeq(bits, z + 1, z + SignificandBits),
                                bits[z + SignificandBits + 1],
                                RemainderAfter(p, n, z + SignificandBits + 1) # 0,
                                -z)

RECURSIVE BitsValue(_, _)
\* the number whose binary digits are the first w bits
BitsValue(bits, w) ==
    IF w = 0 THEN 0 ELSE 2 * BitsValue(bits, w - 1) + bits[w]

\* the j-th chunk of the bits, counted from the least significant end
Chunk(bits, j) ==
    LET hi == Len(bits) - ChunkBits * (j - 1)
        lo == IF hi - ChunkBits + 1 < 1 THEN 1 ELSE hi - ChunkBits + 1
    IN  IF hi < 1 THEN 0 ELSE BitsValue(SubSeq(bits, lo, hi), hi - lo + 1)

RECURSIVE ChunkCarry(_, _, _)
\* what the lowest j chunks of bits * k carry into the next chunk
ChunkCarry(bits, k, j) ==
    IF j = 0 THEN 0
    ELSE (Chunk(bits, j) * k + ChunkCarry(bits, k, j - 1)) \div 2 ^ ChunkBits

\* the q-th bit of bits * k, counted from the least significant end
ProductBit(bits, k, q) ==
    LET j == ((q - 1) \div ChunkBits) + 1
        digit == (Chunk(bits, j) * k + ChunkCarry(bits, k, j - 1)) % 2 ^ ChunkBits
    IN  (digit \div 2 ^ ((q - 1) % ChunkBits)) % 2

\* bits * k for a k below 128, in 7 more bits
TimesSmall(bits, k) ==
    [i \in 1..(Len(bits) + 7) |-> ProductBit(bits, k, Len(bits) + 7 - i + 1)]

\* d * k for 64 <= k < 128: the exact product, rounded to a double
Times(d, k) ==
    LET product == TimesSmall(d.m, k)
        lz == IF product[1] = 1 THEN 0 ELSE 1
    IN  RoundToNearestEven(SubSeq(product, lz + 1, lz + SignificandBits),
                           product[lz + SignificandBits + 1],
                           \E i \in (lz + SignificandBits + 2)..Len(product) : product[i] = 1,
                           d.e + 7 - lz)

\* Math.round of a positive double below 2^53: the nearest integer, halves up
MathRound(d) ==
    IF d.e < 0 THEN 0
    ELSE IF d.e = 0 THEN 1
    ELSE BitsValue(d.m, d.e) + d.m[d.e + 1]

\* attendances.filter(a => a.status === 'present' || a.status === 'late').length;
\* a list of records is the list of their statuses
PresentCount(records) ==
    Cardinality({i \in 1..Len(records) : records[i] \in {"present", "late"}})

\* Math.round((presentCount / attendances.length) * 100)
calculateAttendancePercentage(records) ==
    IF Len(records) = 0 THEN 0
    ELSE IF PresentCount(records) = 0 THEN 0
    ELSE MathRound(Times(Divide(PresentCount(records), Len(records)), 100))

\* variant of TrendOf: a change of exactly 5 points already counts
TrendOfInclusive(change) ==
    IF change >= 5 THEN "improving"
    ELSE IF change <= -5 THEN "declining"
    ELSE "stable"

\* if (change > 5) ... else if (change < -5) ... else ...
TrendOf(change) ==
    IF change > 5 THEN "improving"
    ELSE IF change < -5 THEN "declining"
    ELSE "stable"

\* midpoint = Math.floor(length / 2); firstHalf = slice(0, midpoint);
\* secondHalf = slice(midpoint); the rates are integers, so the Math.round of
\* their difference is the difference
calculateAttendanceTrends(records) ==
    IF Len(records) < 2 THEN [trend |-> "insufficient_data", change |-> 0]
    ELSE LET midpoint == Len(records) \div 2
             firstRate == calculateAttendancePercentage(SubSeq(records, 1, midpoint))
             secondRate ==
                 calculateAttendancePercentage(SubSeq(records, midpoint + 1, Len(records)))
         IN  [trend |-> TrendOf(secondRate - firstRate),
              change |-> secondRate - firstRate,
              firstHalfRate |-> firstRate,
              secondHalfRate |-> secondRate]

\* variant of getAttendanceRiskLevel: a rate of exactly 50 is already critical
getAttendanceRiskLevelAtFifty(attendanceRate, consecutiveAbsences) ==
    IF consecutiveAbsences >= 5 \/ attendanceRate <= 50 THEN "critical"
    ELSE IF consecutiveAbsences >= 3 \/ attendanceRate < 70 THEN "high"
    ELSE IF consecutiveAbsences >= 2 \/ attendanceRate < 80 THEN "medium"
    ELSE "low"

getAttendanceRiskLevel(attendanceRate, consecutiveAbsences) ==
    IF consecutiveAbsences >= 5 \/ attendanceRate < 50 THEN "critical"
    ELSE IF consecutiveAbsences >= 3 \/ attendanceRate < 70 THEN "high"
    ELSE IF consecutiveAbsences >= 2 \/ attendanceRate < 80 THEN "medium"
    ELSE "low"

\* counts[status]
StatusCount(records, status) ==
    Cardinality({i \in 1..Len(records) : records[i] = status})

\* where the status first occurs in the list
FirstOccurrence(records, status) ==
    CHOOSE i \in 1..Len(records) :
        records[i] = status /\ \A j \in 1..(i - 1) : records[j] # status

\* Object.keys(counts): the statuses that occur, in the order they were first added
StatusKeys(records) ==
    LET occurring == {records[i] : i \in 1..Len(records)}
    IN  [k \in 1..Cardinality(occurring) |->
            CHOOSE st \in occurring :
                Cardinality({o \in occurring :
                    FirstOccurrence(records, o) < FirstOccurrence(records, st)}) = k - 1]

\* variant of KeepsAccumulator: on equal counts the accumulator stays
KeepsAccumulatorOnTie(records, a, b) ==
    StatusCount(records, a) >= StatusCount(records, b)

\* counts[a] > counts[b]
KeepsAccumulator(records, a, b) ==
    StatusCount(records, a) > StatusCount(records, b)

RECURSIVE ReduceKeys(_, _, _, _)
\* keys.reduce((a, b) => counts[a] > counts[b] ? a : b) from the i-th key on
ReduceKeys(records, keys, i, a) ==
    IF i > Len(keys) THEN a
    ELSE ReduceKeys(records, keys, i + 1,
                    IF KeepsAccumulator(records, a, keys[i]) THEN a ELSE keys[i])

\* null for the empty list
getMostCommonStatus(records) ==
    IF Len(records) = 0 THEN Null
    ELSE Some(ReduceKeys(records, StatusKeys(records), 2, StatusKeys(records)[1]))

----------------------------------------------------------------------------
(* The store after installation: no schedule, no session, empty classes *)

Init ==
    /\ schedules = <<>>
    /\ nextScheduleId = 1
    /\ students = [c \in Classes |-> {}]
    /\ sessions = <<>>
    /\ attendances = <<>>
    /\ now = 0
    /\ calls = <<>>
    /\ checkIns = <<>>

----------------------------------------------------------------------------
(* The requests the specifications draw *)

\* Monday 08:00-09:30, class 1, taught by teacher 1 in period 1
SlotA ==
    [classId |-> 1, teacherId |-> 1, dayOfWeek |-> 1, startTime |-> 480,
     endTime |-> 570, academicPeriodId |-> 1]

NoUpdate == [f \in UpdateFields |-> Null]

\* the slot is handed to another teacher
Reassign(t) == [NoUpdate EXCEPT !.teacherId = Some(t)]

\* a session status the schema does not know; an attendance status it does not know
SessionStatusesAsked == {"ongoing", "completed", "cancelled", "paused"}
AttendanceStatusesAsked == {"present", "absent", "late", "excused", "sick"}

\* the ids a caller may name: those in the store and one that is not
SessionIdsAsked == DOMAIN sessions \cup {NextSessionId}
AttendanceIdsAsked == DOMAIN attendances \cup {NextAttendanceId}
ScheduleIdsAsked == DOMAIN schedules \cup {nextScheduleId}

----------------------------------------------------------------------------
(* Spec: schedules and sessions from the empty store, at one instant;      *)
(* teacher 1 holds the slots, calls are made one after another             *)

Dates == {0, 1}

Next ==
    \/ createSchedule(SlotA)
    \/ \E id \in ScheduleIdsAsked, soft \in BOOLEAN : deleteSchedule(id, soft)
    \/ \E st \in StudentIds : changeRoster(1, st)
    \/ \E id \in ScheduleIdsAsked, d \in Dates, t \in Teachers : createSession(id, d, Null, t)
    \/ \E s \in SessionIdsAsked, v \in SessionStatusesAsked, t \in Teachers :
          updateSessionStatus(s, v, t)
    \/ \E s \in SessionIdsAsked, t \in Teachers : endSession(s, t)
    \/ \E s \in SessionIdsAsked, t \in Teachers : cancelSession(s, t)

Spec == Init /\ [][Next]_vars

----------------------------------------------------------------------------
(* The store once SlotA is created and both students have joined class 1   *)

Classroom(instant) ==
    /\ schedules = <<ScheduleRow(SlotA)>>
    /\ nextScheduleId = 2
    /\ students = [c \in Classes |-> IF c = 1 THEN StudentIds ELSE {}]
    /\ sessions = <<>>
    /\ attendances = <<>>
    /\ now = instant
    /\ calls = <<>>
    /\ checkIns = <<>>

BulkStatusesAsked == {"absent", "late"}

MarkRequests ==
    [attendanceId : AttendanceIdsAsked, status : BulkStatusesAsked, notes : {Null}]

\* the request bodies of markAttendance: 1 to MaxBatch updates
Batches == UNION {[1..n -> MarkRequests] : n \in 1..MaxBatch}

----------------------------------------------------------------------------
(* SpecClass: the session of day 0 of one class at 08:10, while the slot   *)
(* changes hands and students join and leave; calls are made one after     *)
(* another                                                                 *)

InitClass == Classroom(490)

NextClass ==
    \/ \E t \in Teachers : updateSchedule(1, Reassign(t))
    \/ \E soft \in BOOLEAN : deleteSchedule(1, soft)
    \/ \E st \in StudentIds : changeRoster(1, st)
    \/ \E t \in Teachers : createSession(1, 0, Null, t)
    \/ \E s \in SessionIdsAsked, v \in SessionStatusesAsked, t \in Teachers :
          updateSessionStatus(s, v, t)
    \/ \E s \in SessionIdsAsked, t \in Teachers : endSession(s, t)
    \/ \E s \in SessionIdsAsked, t \in Teachers : cancelSession(s, t)
    \/ \E s \in SessionIdsAsked, b \in Batches, t \in Teachers : markAttendance(s, b, t)
    \/ \E a \in AttendanceIdsAsked, v \in AttendanceStatusesAsked, t \in Teachers :
          markSingleAttendance(a, v, Null, t)
    \/ \E s \in SessionIdsAsked, st \in StudentIds :
          studentCheckIn(s, st, Null, Some(95))

SpecClass == InitClass /\ [][NextClass]_vars

----------------------------------------------------------------------------
(* SpecLesson: the session of day 0 of one class as time passes from 07:50 *)
(* to 08:20; calls are made one after another                              *)

InitLesson == Classroom(470)

\* 08:10, 08:15 and 08:20 of day 0
LessonInstants == {490, 495, 500}

NextLesson ==
    \/ tick(LessonInstants)
    \/ \E t \in Teachers : createSession(1, 0, Null, t)
    \/ \E s \in SessionIdsAsked, v \in SessionStatusesAsked, t \in Teachers :
          updateSessionStatus(s, v, t)
    \/ \E s \in SessionIdsAsked, t \in Teachers : endSession(s, t)
    \/ \E s \in SessionIdsAsked, t \in Teachers : cancelSession(s, t)
    \/ \E s \in SessionIdsAsked, b \in Batches, t \in Teachers : markAttendance(s, b, t)
    \/ \E a \in AttendanceIdsAsked, v \in AttendanceStatusesAsked, t \in Teachers :
          markSingleAttendance(a, v, Null, t)
    \/ \E s \in SessionIdsAsked, st \in StudentIds :
          studentCheckIn(s, st, Null, Some(95))

SpecLesson == InitLesson /\ [][NextLesson]_vars

----------------------------------------------------------------------------
(* SpecRegister: the sessions of day 0 and day 1 of one class, kept by     *)
(* teacher 1 from 08:10 to 08:15: rows are marked one by one and in        *)
(* batches, with and without notes; calls are made one after another       *)

InitRegister == Classroom(490)

\* 08:15 of day 0
RegisterInstants == {495}

\* the updates of a batch: absent without notes, late with a note
RegisterRequests ==
    [attendanceId : AttendanceIdsAsked, status : {"absent"}, notes : {Null}]
        \cup [attendanceId : AttendanceIdsAsked, status : {"late"}, notes : {Some("n")}]

\* the request bodies of markAttendance: 1 to MaxBatch updates
RegisterBatches == UNION {[1..n -> RegisterRequests] : n \in 1..MaxBatch}

NextRegister ==
    \/ tick(RegisterInstants)
    \/ \E d \in Dates : createSession(1, d, Null, 1)
    \/ \E s \in SessionIdsAsked, b \in RegisterBatches : markAttendance(s, b, 1)
    \/ \E a \in AttendanceIdsAsked, v \in AttendanceStatusesAsked :
          markSingleAttendance(a, v, Some(""), 1)

SpecRegister == InitRegister /\ [][NextRegister]_vars

----------------------------------------------------------------------------
(* SpecSlots: the timetable from the empty store: slots of two teachers    *)
(* and two classes are created and deleted. createScheduleSchema admits    *)
(* any two times of day, so a request may end at or before its start.      *)

\* 08:00, 08:45 and 09:30
SlotTimes == {480, 525, 570}

\* (dayOfWeek, academicPeriodId)
SlotScopes == {<<1, 1>>, <<2, 1>>, <<1, 2>>}

Candidates ==
    {[classId |-> c, teacherId |-> t, dayOfWeek |-> sc[1], startTime |-> st,
      endTime |-> en, academicPeriodId |-> sc[2]] :
        c \in Classes, t \in Teachers, sc \in SlotScopes, st \in SlotTimes, en \in SlotTimes}

NextSlots ==
    \/ \E c \in Candidates : createSchedule(c)
    \/ \E id \in ScheduleIdsAsked, soft \in BOOLEAN : deleteSchedule(id, soft)

SpecSlots == Init /\ [][NextSlots]_vars

----------------------------------------------------------------------------
(* SpecEdit: slots of 08:00-08:45 and 08:45-09:30 are created, then moved, *)
(* stretched, shrunk and deactivated by updateSchedule and deleteSchedule  *)

EditCandidates ==
    {[classId |-> c, teacherId |-> t, dayOfWeek |-> d, startTime |-> iv[1],
      endTime |-> iv[2], academicPeriodId |-> 1] :
        c \in Classes, t \in Teachers, d \in {1, 2}, iv \in {<<480, 525>>, <<525, 570>>}}

\* a new start, a new end or a new day
EditUpdates ==
    {[NoUpdate EXCEPT !.startTime = Some(t)] : t \in {480, 525}}
        \cup {[NoUpdate EXCEPT !.endTime = Some(t)] : t \in {525, 570}}
        \cup {[NoUpdate EXCEPT !.dayOfWeek = Some(d)] : d \in {1, 2}}

NextEdit ==
    \/ \E c \in EditCandidates : createSchedule(c)
    \/ \E id \in ScheduleIdsAsked, u \in EditUpdates : updateSchedule(id, u)
    \/ \E id \in ScheduleIdsAsked : deleteSchedule(id, TRUE)

SpecEdit == Init /\ [][NextEdit]_vars

----------------------------------------------------------------------------
(* SpecAmend: slots of 08:00-08:45 on one day are created, switched off and *)
(* on, moved between periods and teachers, and deleted                      *)

NextAmend ==
    \/ \E c \in Classes, t \in Teachers, period \in {1, 2} :
          createSchedule([classId |-> c, teacherId |-> t, dayOfWeek |-> 1,
                          startTime |-> 480, endTime |-> 525,
                          academicPeriodId |-> period])
    \/ \E id \in ScheduleIdsAsked, active \in BOOLEAN :
          updateSchedule(id, [NoUpdate EXCEPT !.isActive = Some(active)])
    \/ \E id \in ScheduleIdsAsked, period \in {1, 2} :
          updateSchedule(id, [NoUpdate EXCEPT !.academicPeriodId = Some(period)])
    \/ \E id \in ScheduleIdsAsked, t \in Teachers : updateSchedule(id, Reassign(t))
    \/ \E id \in ScheduleIdsAsked, soft \in BOOLEAN : deleteSchedule(id, soft)

SpecAmend == Init /\ [][NextAmend]_vars

----------------------------------------------------------------------------
(* SpecBulk: timetables filled by bulkCreateSchedules, thinned by deleteSchedule *)

\* candidates whose end is after their start
BulkCandidates == {c \in Candidates : c.startTime < c.endTime}

\* arrays of at least one candidate
BulkBatches ==
    {<<c>> : c \in BulkCandidates} \cup (BulkCandidates \X BulkCandidates)

NextBulk ==
    \/ \E batch \in BulkBatches : bulkCreateSchedules(batch)
    \/ \E id \in ScheduleIdsAsked : deleteSchedule(id, TRUE)

SpecBulk == Init /\ [][NextBulk]_vars

----------------------------------------------------------------------------
(* SpecRace: two createSession calls for the same slot and date overlap.   *)
(* Each await of createSession is a step of its own: the schedule query,   *)
(* the query for an existing session, the insert.                          *)

Callers == {1, 2}

CallAt(pc, res, classScheduleId, date, profileId, classStudents) ==
    [op |-> "createSession", pc |-> pc, res |-> res, classScheduleId |-> classScheduleId,
     date |-> date, profileId |-> profileId, classStudents |-> classStudents]

SetCall(c, call) == [k \in DOMAIN calls \cup {c} |-> IF k = c THEN call ELSE calls[k]]

\* await classSchedule.findFirst: the schedule and the students of its class, or 404
createSessionFindSchedule(c, classScheduleId, date, profileId) ==
    /\ c \notin DOMAIN calls
    /\ calls' = SetCall(c,
          IF ~OwnedActiveSchedule(classScheduleId, profileId)
          THEN CallAt("done", "NotFound", classScheduleId, date, profileId, {})
          ELSE CallAt("findExisting", "none", classScheduleId, date, profileId,
                      ClassStudents(classScheduleId)))
    /\ UNCHANGED <<schedules, nextScheduleId, students, sessions, attendances, now, checkIns>>

\* await attendanceSession.findFirst: 400 if the slot has a session on that date
createSessionFindExisting(c) ==
    /\ c \in DOMAIN calls
    /\ calls[c].pc = "findExisting"
    /\ calls' = SetCall(c,
          IF SessionExists(calls[c].classScheduleId, calls[c].date)
          THEN [calls[c] EXCEPT !.pc = "done", !.res = "Conflict"]
          ELSE [calls[c] EXCEPT !.pc = "create"])
    /\ UNCHANGED <<schedules, nextScheduleId, students, sessions, attendances, now, checkIns>>

\* await attendanceSession.create, with the students read by the first query
createSessionCreate(c) ==
    /\ c \in DOMAIN calls
    /\ calls[c].pc = "create"
    /\ NextSessionId <= MaxSessions
    /\ InsertSession(calls[c].classScheduleId, calls[c].date, Null, calls[c].profileId,
                     calls[c].classStudents)
    /\ calls' = SetCall(c, [calls[c] EXCEPT !.pc = "done", !.res = "ok"])
    /\ UNCHANGED <<schedules, nextScheduleId, students, now>>

InitRace == Classroom(490)

NextRace ==
    \/ \E c \in Callers : createSessionFindSchedule(c, 1, 0, 1)
    \/ \E c \in Callers : createSessionFindExisting(c)
    \/ \E c \in Callers : createSessionCreate(c)
    \/ \E st \in StudentIds : changeRoster(1, st)
    \/ \E s \in SessionIdsAsked, t \in Teachers : endSession(s, t)
    \/ \E s \in SessionIdsAsked, t \in Teachers : cancelSession(s, t)

SpecRace == InitRace /\ [][NextRace]_vars

----------------------------------------------------------------------------
(* SpecSlotRace: two callers inside createSchedule at once; each await is a step *)

SlotCallAt(pc, res, candidate) ==
    [op |-> "createSchedule", pc |-> pc, res |-> res, candidate |-> candidate]

\* await checkTimeConflict(...): throws 409 on a conflict with a stored row
createScheduleCheck(c, candidate) ==
    /\ c \notin DOMAIN calls
    /\ calls' = SetCall(c,
          IF checkTimeConflict(candidate, Null) # "none"
          THEN SlotCallAt("done", "Conflict", candidate)
          ELSE SlotCallAt("create", "none", candidate))
    /\ UNCHANGED <<schedules, nextScheduleId, students, sessions, attendances, now, checkIns>>

\* await classSchedule.create
createScheduleCreate(c) ==
    /\ c \in DOMAIN calls
    /\ calls[c].pc = "create"
    /\ nextScheduleId <= MaxSchedules
    /\ schedules' = [id \in DOMAIN schedules \cup {nextScheduleId} |->
                        IF id = nextScheduleId THEN ScheduleRow(calls[c].candidate)
                        ELSE schedules[id]]
    /\ nextScheduleId' = nextScheduleId + 1
    /\ calls' = SetCall(c, [calls[c] EXCEPT !.pc = "done", !.res = "ok"])
    /\ UNCHANGED <<students, sessions, attendances, now, checkIns>>

\* one day and period; three intervals, two of which touch and one covers both
RaceCandidates ==
    {c \in BulkCandidates : c.dayOfWeek = 1 /\ c.academicPeriodId = 1}

NextSlotRace ==
    \/ \E c \in Callers, candidate \in RaceCandidates : createScheduleCheck(c, candidate)
    \/ \E c \in Callers : createScheduleCreate(c)

SpecSlotRace == Init /\ [][NextSlotRace]_vars

----------------------------------------------------------------------------
(* SpecMarkRace: a marking call or a check-in is in progress while the     *)
(* teacher ends or cancels the session; each await is a step               *)

\* the checks of markAttendance before its transaction
markAttendanceSessionOutcome(sessionId, atts, profileId) ==
    IF \/ Len(atts) < 1
       \/ \E i \in 1..Len(atts) : ~ValidAttendanceStatus(atts[i].status)
    THEN "Validation"
    ELSE IF sessionId \notin DOMAIN sessions THEN "NotFound"
    ELSE IF sessions[sessionId].createdBy # profileId THEN "Forbidden"
    ELSE IF ~validateSessionActive(sessions[sessionId]) THEN "InvalidTransition"
    ELSE "ok"

\* await attendanceSession.findUnique, then the checks on the session read
markAttendanceFind(c, sessionId, atts, profileId) ==
    /\ c \notin DOMAIN calls
    /\ calls' = SetCall(c,
          [op |-> "markAttendance", sessionId |-> sessionId, atts |-> atts,
           profileId |-> profileId,
           pc |-> IF markAttendanceSessionOutcome(sessionId, atts, profileId) = "ok"
                  THEN "transaction" ELSE "done",
           res |-> IF markAttendanceSessionOutcome(sessionId, atts, profileId) = "ok"
                   THEN "none"
                   ELSE markAttendanceSessionOutcome(sessionId, atts, profileId)])
    /\ UNCHANGED <<schedules, nextScheduleId, students, sessions, attendances, now, checkIns>>

\* await $transaction(updates): rolled back if an update finds no row
markAttendanceTransaction(c) ==
    /\ c \in DOMAIN calls
    /\ calls[c].op = "markAttendance"
    /\ calls[c].pc = "transaction"
    /\ IF \E i \in 1..Len(calls[c].atts) :
              ~UpdateTargetExists(calls[c].atts[i], calls[c].sessionId)
       THEN /\ calls' = SetCall(c, [calls[c] EXCEPT !.pc = "done", !.res = "NotFound"])
            /\ UNCHANGED attendances
       ELSE /\ calls' = SetCall(c, [calls[c] EXCEPT !.pc = "done", !.res = "ok"])
            /\ attendances' = MarkAll(attendances, calls[c].atts, calls[c].profileId)
    /\ UNCHANGED <<schedules, nextScheduleId, students, sessions, now, checkIns>>

\* await attendance.findUnique with its session, then the checks on what was read
markSingleAttendanceFind(c, attendanceId, status, notes, profileId) ==
    /\ c \notin DOMAIN calls
    /\ calls' = SetCall(c,
          [op |-> "markSingleAttendance", attendanceId |-> attendanceId,
           status |-> status, notes |-> notes, profileId |-> profileId,
           pc |-> IF markSingleAttendanceOutcome(attendanceId, status, profileId) = "ok"
                  THEN "update" ELSE "done",
           res |-> IF markSingleAttendanceOutcome(attendanceId, status, profileId) = "ok"
                   THEN "none"
                   ELSE markSingleAttendanceOutcome(attendanceId, status, profileId)])
    /\ UNCHANGED <<schedules, nextScheduleId, students, sessions, attendances, now, checkIns>>

\* await attendance.update
markSingleAttendanceUpdate(c) ==
    /\ c \in DOMAIN calls
    /\ calls[c].op = "markSingleAttendance"
    /\ calls[c].pc = "update"
    /\ attendances' = [attendances EXCEPT ![calls[c].attendanceId] =
                          MarkedRow(@, calls[c].status, calls[c].notes, calls[c].profileId)]
    /\ calls' = SetCall(c, [calls[c] EXCEPT !.pc = "done", !.res = "ok"])
    /\ UNCHANGED <<schedules, nextScheduleId, students, sessions, now, checkIns>>

CheckInCallAt(pc, res, sessionId, studentId, attendanceId) ==
    [op |-> "studentCheckIn", pc |-> pc, res |-> res, sessionId |-> sessionId,
     studentId |-> studentId, attendanceId |-> attendanceId]

\* await attendanceSession.findUnique: 404, or 400 if the session is not ongoing
studentCheckInFindSession(c, sessionId, studentId) ==
    /\ c \notin DOMAIN calls
    /\ calls' = SetCall(c,
          IF sessionId \notin DOMAIN sessions
          THEN CheckInCallAt("done", "NotFound", sessionId, studentId, Null)
          ELSE IF NotActiveForCheckIn(sessions[sessionId])
          THEN CheckInCallAt("done", "Conflict", sessionId, studentId, Null)
          ELSE CheckInCallAt("findAttendance", "none", sessionId, studentId, Null))
    /\ UNCHANGED <<schedules, nextScheduleId, students, sessions, attendances, now, checkIns>>

\* await attendance.findFirst: 404, or 400 if the row is no longer absent
studentCheckInFindAttendance(c) ==
    /\ c \in DOMAIN calls
    /\ calls[c].op = "studentCheckIn"
    /\ calls[c].pc = "findAttendance"
    /\ calls' = SetCall(c,
          IF AttendanceOf(calls[c].sessionId, calls[c].studentId) = {}
          THEN [calls[c] EXCEPT !.pc = "done", !.res = "NotFound"]
          ELSE IF AlreadyCheckedIn(
                      attendances[FirstAttendance(calls[c].sessionId, calls[c].studentId)])
          THEN [calls[c] EXCEPT !.pc = "done", !.res = "Conflict"]
          ELSE [calls[c] EXCEPT !.pc = "update",
                   !.attendanceId =
                       Some(FirstAttendance(calls[c].sessionId, calls[c].studentId))])
    /\ UNCHANGED <<schedules, nextScheduleId, students, sessions, attendances, now, checkIns>>

\* const now = new Date(); await attendance.update
studentCheckInUpdate(c, method, faceConfidence) ==
    /\ c \in DOMAIN calls
    /\ calls[c].op = "studentCheckIn"
    /\ calls[c].pc = "update"
    /\ attendances' = [attendances EXCEPT ![Val(calls[c].attendanceId)] =
                          CheckedInRow(@, sessions[calls[c].sessionId], method,
                                       faceConfidence)]
    /\ checkIns' = [checkIns EXCEPT ![Val(calls[c].attendanceId)] =
                       IF @ < MaxCheckIns THEN @ + 1 ELSE @]
    /\ calls' = SetCall(c, [calls[c] EXCEPT !.pc = "done", !.res = "ok"])
    /\ UNCHANGED <<schedules, nextScheduleId, students, sessions, now>>

InitMarkRace == Classroom(490)

\* one update per batch: late, or absent
MarkRaceBatches == {<<r>> : r \in MarkRequests}

NextMarkRace ==
    \/ tick(RegisterInstants)
    \/ createSession(1, 0, Null, 1)
    \/ \E s \in SessionIdsAsked : endSession(s, 1)
    \/ \E s \in SessionIdsAsked : cancelSession(s, 1)
    \/ \E c \in Callers, s \in SessionIdsAsked, b \in MarkRaceBatches :
          markAttendanceFind(c, s, b, 1)
    \/ \E c \in Callers : markAttendanceTransaction(c)
    \/ \E c \in Callers, a \in AttendanceIdsAsked :
          markSingleAttendanceFind(c, a, "excused", Null, 1)
    \/ \E c \in Callers : markSingleAttendanceUpdate(c)
    \/ \E c \in Callers, s \in SessionIdsAsked, st \in StudentIds :
          studentCheckInFindSession(c, s, st)
    \/ \E c \in Callers : studentCheckInFindAttendance(c)
    \/ \E c \in Callers : studentCheckInUpdate(c, Null, Some(95))

SpecMarkRace == InitMarkRace /\ [][NextMarkRace]_vars

----------------------------------------------------------------------------
(* SpecStatusRace: two callers inside updateSessionStatus (endSession,     *)
(* cancelSession) at once; each await is a step                            *)

\* await attendanceSession.findUnique, then the checks on the session read
updateSessionStatusFind(c, sessionId, status, profileId) ==
    /\ c \notin DOMAIN calls
    /\ calls' = SetCall(c,
          [op |-> "updateSessionStatus", sessionId |-> sessionId, status |-> status,
           pc |-> IF updateSessionStatusOutcome(sessionId, status, profileId) = "ok"
                  THEN "update" ELSE "done",
           res |-> IF updateSessionStatusOutcome(sessionId, status, profileId) = "ok"
                   THEN "none"
                   ELSE updateSessionStatusOutcome(sessionId, status, profileId)])
    /\ UNCHANGED <<schedules, nextScheduleId, students, sessions, attendances, now, checkIns>>

\* await attendanceSession.update
updateSessionStatusUpdate(c) ==
    /\ c \in DOMAIN calls
    /\ calls[c].pc = "update"
    /\ sessions' = [sessions EXCEPT ![calls[c].sessionId] =
                       UpdatedSession(@, calls[c].status)]
    /\ calls' = SetCall(c, [calls[c] EXCEPT !.pc = "done", !.res = "ok"])
    /\ UNCHANGED <<schedules, nextScheduleId, students, attendances, now, checkIns>>

NextStatusRace ==
    \/ tick(RegisterInstants)
    \/ \E d \in Dates : createSession(1, d, Null, 1)
    \/ \E c \in Callers, s \in SessionIdsAsked, v \in SessionStatuses :
          updateSessionStatusFind(c, s, v, 1)
    \/ \E c \in Callers : updateSessionStatusUpdate(c)

SpecStatusRace == InitMarkRace /\ [][NextStatusRace]_vars

----------------------------------------------------------------------------
(* SpecAll: every writing operation, called one after another on a small   *)
(* timetable: the slot of class 1 and teacher 1, and the slot of class 2   *)
(* and teacher 2 at the same time                                          *)

NextAll ==
    \/ changeRoster(1, 1)
    \/ createSchedule(SlotA)
    \/ \E batch \in UNION {[1..n -> {SlotA, [SlotA EXCEPT !.classId = 2, !.teacherId = 2]}] :
                              n \in 1..MaxBatch} :
          bulkCreateSchedules(batch)
    \/ \E id \in ScheduleIdsAsked : updateSchedule(id, Reassign(1))
    \/ \E id \in ScheduleIdsAsked, soft \in BOOLEAN : deleteSchedule(id, soft)
    \/ \E id \in ScheduleIdsAsked, t \in Teachers : createSession(id, 0, Null, t)
    \/ \E s \in SessionIdsAsked, v \in SessionStatusesAsked, t \in Teachers :
          updateSessionStatus(s, v, t)
    \/ \E s \in SessionIdsAsked, b \in MarkRaceBatches, t \in Teachers :
          markAttendance(s, b, t)
    \/ \E a \in AttendanceIdsAsked, v \in {"excused", "sick"}, t \in Teachers :
          markSingleAttendance(a, v, Null, t)
    \/ \E s \in SessionIdsAsked, st \in StudentIds : studentCheckIn(s, st, Null, Some(95))

SpecAll == Init /\ [][NextAll]_vars

----------------------------------------------------------------------------
(* SpecStats: one call of a statistics function; Init draws its arguments  *)
(* and the call's action stores what it returns                            *)

MaxRecords == 40
MaxShort == 3
HalfLength == 20
MaxAbsences == 6

Block(status, k) == [i \in 1..k |-> status]

\* n records of which p are present or late, every status taking its share
TallyList(n, p) ==
    Block("present", p - (p \div 2)) \o Block("late", p \div 2)
        \o Block("excused", (n - p) \div 2) \o Block("absent", (n - p) - ((n - p) \div 2))

\* a half of m records that starts with k present ones
Half(k, m) == Block("present", k) \o Block("absent", m - k)

\* every list of up to MaxShort records, every tally of up to MaxRecords
\* records, and lists of two long halves whose rates are a few points apart
ListsAsked ==
    UNION {[1..n -> AttendanceStatuses] : n \in 0..MaxShort}
        \cup UNION {{TallyList(n, p) : p \in 0..n} : n \in 0..MaxRecords}
        \cup {Half(k1, HalfLength) \o Half(k2, m) :
                  k1 \in 0..3, k2 \in 0..3, m \in {HalfLength, HalfLength + 1}}

InitStats ==
    /\ schedules = <<>>
    /\ nextScheduleId = 1
    /\ students = [c \in Classes |-> {}]
    /\ sessions = <<>>
    /\ attendances = <<>>
    /\ now = 0
    /\ checkIns = <<>>
    /\ \/ \E op \in {"calculateAttendancePercentage", "calculateAttendanceTrends",
                      "getMostCommonStatus"}, records \in ListsAsked :
             calls = <<[op |-> op, pc |-> "called", records |-> records, res |-> Null]>>
       \/ \E attendanceRate \in 0..100, consecutiveAbsences \in 0..MaxAbsences :
             calls = <<[op |-> "getAttendanceRiskLevel", pc |-> "called",
                        attendanceRate |-> attendanceRate,
                        consecutiveAbsences |-> consecutiveAbsences, res |-> Null]>>

Called(c, op) ==
    /\ c \in DOMAIN calls
    /\ calls[c].op = op
    /\ calls[c].pc = "called"

Return(c, res) ==
    /\ calls' = [calls EXCEPT ![c] = [@ EXCEPT !.pc = "done", !.res = res]]
    /\ UNCHANGED <<schedules, nextScheduleId, students, sessions, attendances, now, checkIns>>

returnAttendancePercentage(c) ==
    /\ Called(c, "calculateAttendancePercentage")
    /\ Return(c, calculateAttendancePercentage(calls[c].records))

returnAttendanceTrends(c) ==
    /\ Called(c, "calculateAttendanceTrends")
    /\ Return(c, calculateAttendanceTrends(calls[c].records))

returnMostCommonStatus(c) ==
    /\ Called(c, "getMostCommonStatus")
    /\ Return(c, getMostCommonStatus(calls[c].records))

returnAttendanceRiskLevel(c) ==
    /\ Called(c, "getAttendanceRiskLevel")
    /\ Return(c, getAttendanceRiskLevel(calls[c].attendanceRate,
                                        calls[c].consecutiveAbsences))

NextStats ==
    \/ returnAttendancePercentage(1)
    \/ returnAttendanceTrends(1)
    \/ returnMostCommonStatus(1)
    \/ returnAttendanceRiskLevel(1)

SpecStats == InitStats /\ [][NextStats]_vars

----------------------------------------------------------------------------
(* Properties *)

RecordsOf(s) == {a \in DOMAIN attendances : attendances[a].attendanceSessionId = s}
StudentsRecorded(s) == {attendances[a].studentId : a \in RecordsOf(s)}
IsTerminal(s) == sessions[s].status \in {"completed", "cancelled"}
IsOngoing(s) == sessions[s].status = "ongoing"

C1_Rejected ==
    \A s \in DOMAIN sessions :
        IsTerminal(s) =>
            \A v \in SessionStatuses :
                updateSessionStatusOutcome(s, v, sessions[s].createdBy) = "InvalidTransition"

C1_Kept ==
    \A s \in DOMAIN sessions :
        IsTerminal(s) =>
            /\ sessions'[s].status = sessions[s].status
            /\ sessions'[s].endedAt = sessions[s].endedAt

\* C1: on a completed or cancelled session, updateSessionStatus (and so endSession
\* and cancelSession) called by the session's creator with any status the schema
\* admits - ongoing, completed, cancelled, the current one included - answers
\* InvalidTransition, and no step changes the session's status or its endedAt.
C1_TerminalSessionRejectsUpdate == []C1_Rejected /\ [][C1_Kept]_vars

\* a session that ended at an earlier instant
C1_Witness ==
    \E s \in DOMAIN sessions : IsTerminal(s) /\ Val(sessions[s].endedAt) < now

C2_Rejected ==
    \A s \in DOMAIN sessions :
        IsTerminal(s) =>
            /\ \A b \in Batches, t \in Teachers : markAttendanceOutcome(s, b, t) # "ok"
            /\ \A a \in RecordsOf(s), v \in AttendanceStatuses, t \in Teachers :
                  markSingleAttendanceOutcome(a, v, t) # "ok"
            /\ \A st \in StudentIds : studentCheckInOutcome(s, st) # "ok"

C2_Kept ==
    \A s \in DOMAIN sessions :
        IsTerminal(s) =>
            /\ IsTerminal(s)'
            /\ \A a \in RecordsOf(s) : attendances'[a] = attendances[a]

\* C2: once a session is completed or cancelled it stays so, every markAttendance,
\* markSingleAttendance and studentCheckIn on it fails, and every attendance row of
\* it keeps every field in every later step.
C2_TerminalSessionFreezesAttendance == []C2_Rejected /\ [][C2_Kept]_vars

\* an ended session with a row that was marked or checked in before the end
C2_Witness ==
    \E s \in DOMAIN sessions :
        /\ IsTerminal(s)
        /\ Val(sessions[s].endedAt) < now
        /\ \E a \in RecordsOf(s) : attendances[a].status # "absent"

\* C3: no two sessions share (classScheduleId, date); createSession for a pair that
\* has a session, whatever that session's status, never succeeds, and answers
\* Conflict when the caller passes the schedule lookup (active slot, own slot).
C3_OneSessionPerSlotAndDate ==
    /\ \A s1, s2 \in DOMAIN sessions :
          (/\ sessions[s1].classScheduleId = sessions[s2].classScheduleId
           /\ sessions[s1].date = sessions[s2].date) => s1 = s2
    /\ \A s \in DOMAIN sessions, t \in Teachers, d \in Dates :
          LET id == sessions[s].classScheduleId
          IN  d * 1440 = sessions[s].date =>
                 /\ createSessionOutcome(id, d, t) # "ok"
                 /\ (/\ id \in DOMAIN schedules
                     /\ schedules[id].isActive
                     /\ schedules[id].teacherId = t) => createSessionOutcome(id, d, t) = "Conflict"

\* two sessions of one slot, one of them ended, its slot still active
C3_Witness ==
    \E s1, s2 \in DOMAIN sessions :
        /\ s1 # s2
        /\ sessions[s1].classScheduleId = sessions[s2].classScheduleId
        /\ IsTerminal(s1)
        /\ schedules[sessions[s1].classScheduleId].isActive

C4_Finished == \A c \in Callers : c \in DOMAIN calls /\ calls[c].pc = "done"

\* C4: of two overlapping createSession calls with the same slot and date exactly
\* one succeeds, the other answers Conflict, and the store never holds two sessions
\* of the same slot and date.
C4_OverlappingCreateOneWins ==
    /\ \A s1, s2 \in DOMAIN sessions :
          (/\ sessions[s1].classScheduleId = sessions[s2].classScheduleId
           /\ sessions[s1].date = sessions[s2].date) => s1 = s2
    /\ C4_Finished =>
          \E c \in Callers :
              /\ calls[c].res = "ok"
              /\ \A k \in Callers \ {c} : calls[k].res = "Conflict"

C5_Created ==
    \A sid \in DOMAIN sessions' \ DOMAIN sessions :
        LET row == sessions'[sid]
            enrolled == students[schedules[row.classScheduleId].classId]
            rows == {a \in DOMAIN attendances' : attendances'[a].attendanceSessionId = sid}
        IN  /\ row.status = "ongoing"
            /\ row.endedAt = Null
            /\ \A st \in StudentIds :
                  Cardinality({a \in rows : attendances'[a].studentId = st})
                      = IF st \in enrolled THEN 1 ELSE 0
            /\ \A a \in rows :
                  /\ a \notin DOMAIN attendances
                  /\ attendances'[a].status = "absent"
                  /\ attendances'[a].checkInTime = Null
            /\ \A a \in DOMAIN attendances : attendances'[a] = attendances[a]

\* C5: a step that creates a session creates one attendance row for each student
\* of the slot's class at that moment and for no one else, each absent with no
\* checkInTime, and the session is ongoing with no endedAt.
C5_CreateSessionSnapshotsRoster == [][C5_Created]_vars

\* a session created for a class of two, and one created for a smaller class
C5_Witness ==
    \E s1, s2 \in DOMAIN sessions :
        /\ Cardinality(RecordsOf(s1)) = 2
        /\ Cardinality(RecordsOf(s2)) < 2

C6_AtMostOne ==
    \A s \in DOMAIN sessions, st \in StudentIds : Cardinality(AttendanceOf(s, st)) <= 1

C6_Kept ==
    \A s \in DOMAIN sessions :
        /\ {a \in DOMAIN attendances' : attendances'[a].attendanceSessionId = s} = RecordsOf(s)
        /\ \A a \in RecordsOf(s) : attendances'[a].studentId = attendances[a].studentId

\* C6: a session has at most one attendance row per student, and no step adds a
\* row to an existing session, removes one or changes the student of one: the
\* students recorded for a session are those of its creation, whatever the roster
\* becomes and whatever is marked.
C6_RecordedStudentsNeverChange == []C6_AtMostOne /\ [][C6_Kept]_vars

\* the class no longer has the students the session recorded, and a row was marked
C6_Witness ==
    \E s \in DOMAIN sessions :
        /\ StudentsRecorded(s) # students[schedules[sessions[s].classScheduleId].classId]
        /\ Cardinality(RecordsOf(s)) = 2
        /\ \E a \in RecordsOf(s) : attendances[a].markedBy # Null
        /\ \E a \in RecordsOf(s) : checkIns[a] > 0

C7_OnlyCreator ==
    \A s \in DOMAIN sessions, t \in Teachers :
        /\ \A v \in SessionStatuses :
              /\ updateSessionStatusOutcome(s, v, t) = "ok" => t = sessions[s].createdBy
              /\ t # sessions[s].createdBy => updateSessionStatusOutcome(s, v, t) = "Forbidden"
        /\ \A b \in Batches :
              /\ markAttendanceOutcome(s, b, t) = "ok" => t = sessions[s].createdBy
              /\ t # sessions[s].createdBy => markAttendanceOutcome(s, b, t) = "Forbidden"
        /\ \A a \in RecordsOf(s), v \in AttendanceStatuses :
              /\ markSingleAttendanceOutcome(a, v, t) = "ok" => t = sessions[s].createdBy
              /\ t # sessions[s].createdBy =>
                    markSingleAttendanceOutcome(a, v, t) = "Forbidden"

C7_MarkedByCreator ==
    \A a \in DOMAIN attendances :
        (attendances'[a] # attendances[a] /\ attendances'[a].attendanceMethod = Some("manual"))
            => attendances'[a].markedBy = Some(SessionOf(a).createdBy)

\* C7: updateSessionStatus (so endSession, cancelSession), markAttendance and
\* markSingleAttendance succeed on a session only for the teacher who created it;
\* for any other teacher the call answers Forbidden (and writes nothing), also when
\* updateSchedule has given the slot to that teacher; a row a teacher marks carries
\* the creator as its marker.
C7_OnlyCreatorMutatesSession == []C7_OnlyCreator /\ [][C7_MarkedByCreator]_vars

\* the slot now belongs to another teacher than the session's creator, who has marked a row
C7_Witness ==
    \E s \in DOMAIN sessions :
        /\ schedules[sessions[s].classScheduleId].teacherId # sessions[s].createdBy
        /\ \E a \in RecordsOf(s) : attendances[a].markedBy = Some(sessions[s].createdBy)

\* C8: updateSessionStatus by the creator of an ongoing session succeeds only for
\* completed and cancelled; every other requested value, 'ongoing' included, is
\* rejected with Validation.
C8_OnlyCompletedOrCancelledAccepted ==
    \A s \in DOMAIN sessions :
        IsOngoing(s) =>
            \A v \in SessionStatusesAsked :
                updateSessionStatusOutcome(s, v, sessions[s].createdBy)
                    = IF v \in {"completed", "cancelled"} THEN "ok" ELSE "Validation"

\* C8, amended: updateSessionStatus by the creator of an ongoing session succeeds
\* for completed, cancelled and ongoing, the three values the schema admits, and
\* answers Validation for any other value; completed and cancelled set the status
\* and stamp endedAt, ongoing leaves the status ongoing and endedAt null.
C8_OngoingRequestAccepted ==
    \A s \in DOMAIN sessions :
        IsOngoing(s) =>
            /\ \A v \in SessionStatusesAsked :
                  updateSessionStatusOutcome(s, v, sessions[s].createdBy)
                      = IF v \in {"completed", "cancelled", "ongoing"} THEN "ok"
                        ELSE "Validation"
            /\ UpdatedSession(sessions[s], "ongoing") = sessions[s]
            /\ sessions[s].endedAt = Null
            /\ \A v \in {"completed", "cancelled"} :
                  UpdatedSession(sessions[s], v) =
                      [sessions[s] EXCEPT !.status = v, !.endedAt = Some(now)]

\* an ongoing session, some time after its creation
C8_Witness ==
    \E s \in DOMAIN sessions : IsOngoing(s) /\ sessions[s].startedAt < now

\* C9: for every (session, student), at most one studentCheckIn ever succeeds,
\* also when a teacher re-marks the student between the attempts.
C9_AtMostOneCheckIn ==
    \A a \in DOMAIN checkIns : checkIns[a] <= 1

\* C10: a row written by studentCheckIn is present iff the check-in instant is at
\* most 15 minutes after the slot's start time on the session's date, and late
\* otherwise: start+10 and exactly start+15 give present, start+20 gives late,
\* an instant before the start gives present.
C10_CheckInStatusByThreshold ==
    \A a \in DOMAIN attendances :
        (checkIns[a] > 0 /\ attendances[a].attendanceMethod = Some("face_recognition")) =>
            LET start == SessionOf(a).date
                           + schedules[SessionOf(a).classScheduleId].startTime
                at == Val(attendances[a].checkInTime)
            IN  /\ attendances[a].status = (IF at <= start + 15 THEN "present" ELSE "late")
                /\ at < start => attendances[a].status = "present"
                /\ at = start + 10 => attendances[a].status = "present"
                /\ at = start + 15 => attendances[a].status = "present"
                /\ at = start + 20 => attendances[a].status = "late"

\* one student checked in exactly 15 minutes after the start, another 20 minutes after
C10_Witness ==
    \E a, b \in DOMAIN attendances :
        /\ checkIns[a] > 0 /\ attendances[a].attendanceMethod = Some("face_recognition")
        /\ checkIns[b] > 0 /\ attendances[b].attendanceMethod = Some("face_recognition")
        /\ attendances[a].checkInTime = Some(495) /\ attendances[a].status = "present"
        /\ attendances[b].checkInTime = Some(500) /\ attendances[b].status = "late"

\* C11: every attendance row whose status is absent has checkInTime null, after
\* any sequence of createSession, markAttendance, markSingleAttendance and
\* studentCheckIn.
C11_AbsentHasNoCheckInTime ==
    \A a \in DOMAIN attendances :
        attendances[a].status = "absent" => attendances[a].checkInTime = Null

\* a student who checked in was marked absent by the teacher afterwards
C11_Witness ==
    \E a \in DOMAIN attendances :
        /\ checkIns[a] > 0
        /\ attendances[a].status = "absent"
        /\ attendances[a].markedBy # Null
        /\ attendances[a].checkInTime = Null

\* C14: studentCheckIn answers NotFound whenever the session does not exist or the
\* student has no attendance row for it, whatever the session's status.
C14_MissingRowIsNotFound ==
    \A s \in SessionIdsAsked, st \in StudentIds :
        (s \notin DOMAIN sessions \/ AttendanceOf(s, st) = {})
            => studentCheckInOutcome(s, st) = "NotFound"

\* C15: a row whose attendanceMethod is the one studentCheckIn writes
\* (face_recognition) has markedBy null.
C15_SelfServiceHasNoMarker ==
    \A a \in DOMAIN attendances :
        attendances[a].attendanceMethod = Some("face_recognition")
            => attendances[a].markedBy = Null

\* C16: a row has a faceConfidence only if its attendanceMethod is the one
\* studentCheckIn writes; a row marked manually has faceConfidence null.
C16_ConfidenceOnlyForSelfService ==
    \A a \in DOMAIN attendances :
        /\ attendances[a].faceConfidence # Null
              => attendances[a].attendanceMethod = Some("face_recognition")
        /\ attendances[a].attendanceMethod = Some("manual")
              => attendances[a].faceConfidence = Null

C12_Rejected ==
    \A s \in DOMAIN sessions, b \in RegisterBatches :
        (\E i \in 1..Len(b) : b[i].attendanceId \notin RecordsOf(s))
            => markAttendanceOutcome(s, b, 1) # "ok"

C12_Kept ==
    \A a1, a2 \in DOMAIN attendances :
        (attendances'[a1] # attendances[a1] /\ attendances'[a2] # attendances[a2])
            => attendances[a1].attendanceSessionId = attendances[a2].attendanceSessionId

\* C12: markAttendance with a batch in which some update names no row of the
\* session (an id that does not exist, or a row of another session) fails, whatever
\* the place of that update in the batch, and changes no row; no step changes rows
\* of two sessions, as a batch applied up to its failing update would.
C12_BatchAllOrNothing == []C12_Rejected /\ [][C12_Kept]_vars

\* two ongoing sessions, one with a row marked by a batch, and a batch whose first
\* update names a row of that session and whose second names a row of the other
C12_Witness ==
    \E s1, s2 \in DOMAIN sessions :
        /\ s1 # s2 /\ IsOngoing(s1) /\ IsOngoing(s2)
        /\ \E a \in RecordsOf(s1) : attendances[a].notes = Some("n")
        /\ \A a \in RecordsOf(s2) : attendances[a].markedBy = Null
        /\ \E b \in RegisterBatches :
              /\ Len(b) = 2
              /\ b[1].attendanceId \in RecordsOf(s1)
              /\ b[2].attendanceId \in RecordsOf(s2)
              /\ markAttendanceOutcome(s1, b, 1) = "NotFound"

\* what a marking by teacher 1 makes of a row, field by field
C13_Expected(row, status, notes) ==
    [row EXCEPT !.status = status,
                !.attendanceMethod = Some("manual"),
                !.markedBy = Some(1),
                !.notes = IF notes = Null \/ notes = Some("") THEN Null ELSE notes,
                !.checkInTime = IF status = "absent" THEN Null ELSE Some(now)]

C13_Named(b) == {b[i].attendanceId : i \in 1..Len(b)}

\* the last update of the batch that names the row
C13_LastFor(b, a) ==
    b[CHOOSE i \in 1..Len(b) :
        /\ b[i].attendanceId = a
        /\ \A j \in 1..Len(b) : b[j].attendanceId = a => j <= i]

C13_SingleApplied ==
    \A a \in DOMAIN attendances, v \in AttendanceStatuses, n \in {Null, Some(""), Some("n")} :
        markSingleAttendanceOutcome(a, v, 1) = "ok"
            => MarkedRow(attendances[a], v, n, 1) = C13_Expected(attendances[a], v, n)

\* C13: after a successful markAttendance every row named in the batch has, for
\* every update naming it, that update's status and notes (or null), method
\* manual, the teacher as marker and checkInTime by the status; rows not named
\* are unchanged; markSingleAttendance does the same to its row.
C13_EveryUpdateApplied ==
    /\ C13_SingleApplied
    /\ \A s \in DOMAIN sessions, b \in RegisterBatches :
          markAttendanceOutcome(s, b, 1) = "ok" =>
              LET res == MarkAll(attendances, b, 1)
              IN  /\ \A i \in 1..Len(b) :
                        res[b[i].attendanceId] =
                            C13_Expected(attendances[b[i].attendanceId],
                                         b[i].status, b[i].notes)
                  /\ \A a \in DOMAIN attendances \ C13_Named(b) : res[a] = attendances[a]

C13_Applied ==
    /\ C13_SingleApplied
    /\ \A s \in DOMAIN sessions, b \in RegisterBatches :
          markAttendanceOutcome(s, b, 1) = "ok" =>
              LET res == MarkAll(attendances, b, 1)
              IN  /\ \A a \in C13_Named(b) :
                        res[a] = C13_Expected(attendances[a], C13_LastFor(b, a).status,
                                              C13_LastFor(b, a).notes)
                  /\ \A a \in DOMAIN attendances \ C13_Named(b) : res[a] = attendances[a]

C13_Stamped ==
    \A a \in DOMAIN attendances :
        attendances'[a] # attendances[a] =>
            /\ attendances'[a] = C13_Expected(attendances[a], attendances'[a].status,
                                              attendances'[a].notes)
            /\ IsOngoing(attendances[a].attendanceSessionId)
            /\ attendances'[a].status \in AttendanceStatuses

\* C13, amended: after a successful markAttendance every row named in the batch
\* has the status and notes (or null) of the last update that names it, method
\* manual, the teacher as marker, and checkInTime the marking instant if that
\* status is not absent and null if it is; rows not named are unchanged;
\* markSingleAttendance does the same to its one row; every step that changes a
\* row leaves it in that form.
C13_LastUpdateApplied == []C13_Applied /\ [][C13_Stamped]_vars

\* at 08:15 a batch has marked one row of a session late with a note and the other
\* absent; the rows of the other session are as created
C13_Witness ==
    \E s1, s2 \in DOMAIN sessions, a1, a2 \in DOMAIN attendances :
        /\ s1 # s2 /\ a1 # a2
        /\ RecordsOf(s1) = {a1, a2}
        /\ attendances[a1].status = "late" /\ attendances[a1].notes = Some("n")
        /\ attendances[a1].checkInTime = Some(495)
        /\ attendances[a2].status = "absent" /\ attendances[a2].markedBy = Some(1)
        /\ \A a \in RecordsOf(s2) : attendances[a].markedBy = Null
        /\ RecordsOf(s2) # {}

\* candidate.start < existing.end and existing.start < candidate.end
C17_Overlap(c, e) == c.startTime < e.endTime /\ e.startTime < c.endTime

\* C17: for every candidate and every stored slot in the scope of the scan,
\* checkTimeConflict takes the slot for a conflict iff candidate.start <
\* existing.end and existing.start < candidate.end, and it reports a conflict iff
\* such a slot exists for the candidate's teacher or class.
C17_ConflictIffHalfOpenOverlap ==
    \A c \in Candidates :
        /\ \A id \in DOMAIN schedules :
              InConflictScope(id, c, Null) =>
                  (TimeOverlap(schedules[id], c.startTime, c.endTime)
                      <=> C17_Overlap(c, schedules[id]))
        /\ (checkTimeConflict(c, Null) # "none") <=>
              \E id \in DOMAIN schedules :
                  /\ InConflictScope(id, c, Null)
                  /\ schedules[id].teacherId = c.teacherId
                        \/ schedules[id].classId = c.classId
                  /\ C17_Overlap(c, schedules[id])

C18_Overlap(a, b) == a.startTime < b.endTime /\ b.startTime < a.endTime

C18_SameScope(a, b) ==
    a.dayOfWeek = b.dayOfWeek /\ a.academicPeriodId = b.academicPeriodId

C18_Clash(c, e) ==
    /\ e.isActive
    /\ C18_SameScope(c, e)
    /\ e.teacherId = c.teacherId \/ e.classId = c.classId
    /\ C18_Overlap(c, e)

C18_Rejected ==
    \A c \in Candidates :
        (\E id \in DOMAIN schedules : C18_Clash(c, schedules[id]))
            => createScheduleOutcome(c) = "Conflict"

C18_Stored ==
    \A new \in DOMAIN schedules' \ DOMAIN schedules :
        \A id \in DOMAIN schedules : ~C18_Clash(schedules'[new], schedules[id])

\* C18: createSchedule answers Conflict whenever an active stored slot of the same
\* day and period, with the same teacher or the same class, overlaps the
\* candidate (A.start < B.end and B.start < A.end), and no step stores a slot
\* that so overlaps a stored one.
C18_OverlapRejected == []C18_Rejected /\ [][C18_Stored]_vars

\* two active slots of one teacher in one scope, and a candidate of another
\* teacher that is refused for its class
C18_Witness ==
    \E i, j \in DOMAIN schedules :
        /\ i # j
        /\ schedules[i].isActive /\ schedules[j].isActive
        /\ schedules[i].teacherId = schedules[j].teacherId
        /\ C18_SameScope(schedules[i], schedules[j])
        /\ \E c \in Candidates :
              /\ c.teacherId # schedules[i].teacherId
              /\ C18_Clash(c, schedules[i])
              /\ createScheduleOutcome(c) = "Conflict"

C19_Valid(x) == x.startTime < x.endTime

C19_Touches(c, e) == c.startTime = e.endTime \/ c.endTime = e.startTime

C19_Related(c, id) ==
    /\ InConflictScope(id, c, Null)
    /\ schedules[id].teacherId = c.teacherId \/ schedules[id].classId = c.classId

\* C19: among slots with end > start, a candidate that starts where a stored slot
\* of its teacher or class ends, or ends where it starts, is not taken for a
\* conflict with it, and createSchedule succeeds when every stored slot of the
\* teacher and the class in scope only touches the candidate or lies apart.
C19_TouchingNeverConflicts ==
    \A c \in Candidates :
        C19_Valid(c) =>
            /\ \A id \in DOMAIN schedules :
                  (C19_Valid(schedules[id]) /\ C19_Touches(c, schedules[id]))
                      => ~TimeOverlap(schedules[id], c.startTime, c.endTime)
            /\ (\A id \in DOMAIN schedules :
                   C19_Related(c, id) =>
                       /\ C19_Valid(schedules[id])
                       /\ \/ C19_Touches(c, schedules[id])
                          \/ c.endTime < schedules[id].startTime
                          \/ schedules[id].endTime < c.startTime)
                  => createScheduleOutcome(c) = "ok"

\* a teacher's active slots 08:00-08:45 and 08:45-09:30 on one day of one period
C19_Witness ==
    \E i, j \in DOMAIN schedules :
        /\ schedules[i].isActive /\ schedules[j].isActive
        /\ schedules[i].teacherId = schedules[j].teacherId
        /\ schedules[i].dayOfWeek = schedules[j].dayOfWeek
        /\ schedules[i].academicPeriodId = schedules[j].academicPeriodId
        /\ schedules[i].startTime = 480 /\ schedules[i].endTime = 525
        /\ schedules[j].startTime = 525 /\ schedules[j].endTime = 570

\* C20: when a stored slot conflicts on the teacher side checkTimeConflict names
\* the teacher, also when a slot conflicts on the class side; it names the class
\* only when there is a class-side conflict and no teacher-side one.
C20_TeacherReasonFirst ==
    \A c \in Candidates :
        /\ TeacherConflict(c, Null) => checkTimeConflict(c, Null) = "teacher"
        /\ checkTimeConflict(c, Null) = "class"
              => (ClassConflict(c, Null) /\ ~TeacherConflict(c, Null))
        /\ (ClassConflict(c, Null) /\ ~TeacherConflict(c, Null))
              => checkTimeConflict(c, Null) = "class"

\* two stored slots, one of the candidate's teacher with another class and one of
\* the candidate's class with another teacher, both conflicting with it
C20_Witness ==
    \E i, j \in DOMAIN schedules, c \in Candidates :
        /\ i # j
        /\ schedules[i].teacherId = c.teacherId /\ schedules[i].classId # c.classId
        /\ schedules[j].classId = c.classId /\ schedules[j].teacherId # c.teacherId
        /\ TeacherConflict(c, Null) /\ ClassConflict(c, Null)
        /\ checkTimeConflict(c, Null) = "teacher"

\* C22: every stored slot has end > start, after any sequence of createSchedule
\* (bulkCreateSchedules, updateSchedule) calls.
C22_StoredSlotsEndAfterStart ==
    \A id \in DOMAIN schedules : schedules[id].startTime < schedules[id].endTime

\* C30: a row marked excused by the teacher through markSingleAttendance has
\* checkInTime null.
C30_ExcusedHasNoCheckInTime ==
    \A a \in DOMAIN attendances :
        (attendances[a].status = "excused" /\ attendances[a].markedBy # Null)
            => attendances[a].checkInTime = Null

\* every interval, day and owner a candidate of SpecEdit may have
C21_Asked ==
    {[classId |-> c, teacherId |-> t, dayOfWeek |-> d, startTime |-> st,
      endTime |-> en, academicPeriodId |-> 1] :
        c \in Classes, t \in Teachers, d \in {1, 2}, st \in {480, 525}, en \in {525, 570}}

\* the slot may count against candidate c when slot ex is excluded
C21_Counts(id, c, ex) ==
    /\ schedules[id].isActive
    /\ schedules[id].dayOfWeek = c.dayOfWeek
    /\ schedules[id].academicPeriodId = c.academicPeriodId
    /\ Some(id) # ex
    /\ schedules[id].teacherId = c.teacherId \/ schedules[id].classId = c.classId
    /\ TimeOverlap(schedules[id], c.startTime, c.endTime)

\* the candidate updateSchedule checks: the stored slot with the given fields replaced
C21_Merged(e, u) ==
    [classId |-> e.classId, teacherId |-> e.teacherId,
     dayOfWeek |-> IF u.dayOfWeek = Null THEN e.dayOfWeek ELSE Val(u.dayOfWeek),
     startTime |-> IF u.startTime = Null THEN e.startTime ELSE Val(u.startTime),
     endTime |-> IF u.endTime = Null THEN e.endTime ELSE Val(u.endTime),
     academicPeriodId |-> e.academicPeriodId]

\* C21: checkTimeConflict reports a conflict only if some stored slot other than
\* the excluded one is active, has the candidate's day and period and overlaps
\* it for its teacher or class; so updateSchedule does not answer Conflict when no
\* slot other than the updated one stands against the new interval.
C21_OnlyScopedSlotsConflict ==
    /\ \A c \in C21_Asked, ex \in {Null} \cup {Some(id) : id \in DOMAIN schedules} :
          checkTimeConflict(c, ex) # "none"
              => \E id \in DOMAIN schedules : C21_Counts(id, c, ex)
    /\ \A id \in DOMAIN schedules, u \in EditUpdates :
          (\A other \in DOMAIN schedules \ {id} :
               ~C21_Counts(other, C21_Merged(schedules[id], u), Null))
              => updateScheduleOutcome(id, u) = "ok"

\* an active slot of 08:00-09:30, which only an update over its own interval
\* gives, beside an inactive slot of the same teacher that overlaps it
C21_Witness ==
    \E i, j \in DOMAIN schedules :
        /\ i # j
        /\ schedules[i].isActive /\ ~schedules[j].isActive
        /\ schedules[i].startTime = 480 /\ schedules[i].endTime = 570
        /\ schedules[j].teacherId = schedules[i].teacherId
        /\ schedules[j].dayOfWeek = schedules[i].dayOfWeek
        /\ schedules[j].startTime = 525 /\ schedules[j].endTime = 570

\* two stored slots are both active, share day and period, share the teacher or
\* the class, and overlap in time
C23_Clash(i, j) ==
    /\ schedules[i].isActive /\ schedules[j].isActive
    /\ schedules[i].dayOfWeek = schedules[j].dayOfWeek
    /\ schedules[i].academicPeriodId = schedules[j].academicPeriodId
    /\ \/ schedules[i].teacherId = schedules[j].teacherId
       \/ schedules[i].classId = schedules[j].classId
    /\ schedules[i].startTime < schedules[j].endTime
    /\ schedules[j].startTime < schedules[i].endTime

\* C23: bulkCreateSchedules rejects a batch holding two candidates that overlap
\* each other for the same teacher or class on the same day and period, so the
\* slots it has stored never hold two such active slots.
C23_BatchChecksItsOwnCandidates ==
    \A i, j \in DOMAIN schedules : i # j => ~C23_Clash(i, j)

\* the candidates of two calls overlap for the same teacher or class, same day
\* and period
C24_Overlapping(p, q) ==
    /\ p.dayOfWeek = q.dayOfWeek
    /\ p.academicPeriodId = q.academicPeriodId
    /\ p.teacherId = q.teacherId \/ p.classId = q.classId
    /\ p.startTime < q.endTime
    /\ q.startTime < p.endTime

\* C24: two concurrent createSchedule calls with overlapping candidates never
\* both succeed, however their check and insert steps interleave.
C24_NeverBothSucceed ==
    \A a, b \in DOMAIN calls :
        (/\ a # b
         /\ calls[a].op = "createSchedule" /\ calls[b].op = "createSchedule"
         /\ C24_Overlapping(calls[a].candidate, calls[b].candidate))
            => ~(calls[a].res = "ok" /\ calls[b].res = "ok")

\* C25: no attendance record of a session is written after the session has
\* become completed or cancelled: no row of such a session carries a check-in
\* instant later than the instant the session ended.
C25_NoWriteAfterTerminal ==
    \A a \in DOMAIN attendances :
        (/\ IsTerminal(attendances[a].attendanceSessionId)
         /\ attendances[a].checkInTime # Null
         /\ SessionOf(a).endedAt # Null)
            => Val(attendances[a].checkInTime) <= Val(SessionOf(a).endedAt)

\* the call of the given function has returned
C26_Returned(op) == calls # <<>> /\ calls[1].op = op /\ calls[1].pc = "done"

\* C26: the rate is round(100 * (present + late) / total) with halves rounded
\* up for a non-empty list, 0 for the empty list, 100 when every record is
\* present, and lies in 0..100.
C26_RateIsRoundedRatio ==
    C26_Returned("calculateAttendancePercentage") =>
        LET records == calls[1].records
            total == Len(records)
            counted == Cardinality({i \in 1..total : records[i] \in {"present", "late"}})
        IN  /\ calls[1].res \in 0..100
            /\ total = 0 => calls[1].res = 0
            /\ total > 0 => calls[1].res = (200 * counted + total) \div (2 * total)
            /\ (total > 0 /\ \A i \in 1..total : records[i] = "present")
                   => calls[1].res = 100

\* C27: for n >= 2 records the halves are the first floor(n/2) records and the
\* rest, change is the rate of the second half minus the rate of the first, and
\* the trend is improving iff change > 5, declining iff change < -5, stable
\* otherwise; for fewer than 2 records the trend is insufficient_data.
C27_TrendOfHalves ==
    C26_Returned("calculateAttendanceTrends") =>
        LET records == calls[1].records
            n == Len(records)
            change == calculateAttendancePercentage(SubSeq(records, (n \div 2) + 1, n))
                          - calculateAttendancePercentage(SubSeq(records, 1, n \div 2))
        IN  IF n < 2 THEN calls[1].res.trend = "insufficient_data"
            ELSE /\ calls[1].res.change = change
                 /\ calls[1].res.trend = "improving" <=> change > 5
                 /\ calls[1].res.trend = "declining" <=> change < -5
                 /\ calls[1].res.trend = "stable" <=> (change >= -5 /\ change <= 5)

\* a list of 41 records whose second half is exactly 5 points above the first
C27_Witness ==
    /\ C26_Returned("calculateAttendanceTrends")
    /\ Len(calls[1].records) = 2 * HalfLength + 1
    /\ calls[1].res.change = 5
    /\ calls[1].res.trend = "stable"

C29_Modes(records) ==
    {records[i] : i \in {i \in 1..Len(records) :
        \A j \in 1..Len(records) :
            Cardinality({k \in 1..Len(records) : records[k] = records[j]})
                <= Cardinality({k \in 1..Len(records) : records[k] = records[i]})}}

\* the place of the first record with the status
C29_First(records, status) ==
    CHOOSE i \in 1..Len(records) :
        records[i] = status /\ \A j \in 1..(i - 1) : records[j] # status

\* C29 as stated: the result has a maximal count, and among the statuses of
\* maximal count it is the one encountered first.
C29_FirstModeWins ==
    (C26_Returned("getMostCommonStatus") /\ calls[1].records # <<>>) =>
        /\ Val(calls[1].res) \in C29_Modes(calls[1].records)
        /\ \A other \in C29_Modes(calls[1].records) :
               C29_First(calls[1].records, Val(calls[1].res))
                   <= C29_First(calls[1].records, other)

\* C29, amended: the result has a maximal count, and among the statuses of
\* maximal count it is the one whose first record comes last.
C29_LastModeWins ==
    (C26_Returned("getMostCommonStatus") /\ calls[1].records # <<>>) =>
        /\ Val(calls[1].res) \in C29_Modes(calls[1].records)
        /\ \A other \in C29_Modes(calls[1].records) :
               C29_First(calls[1].records, other)
                   <= C29_First(calls[1].records, Val(calls[1].res))

\* three statuses once each: the third is returned
C29_Witness ==
    /\ C26_Returned("getMostCommonStatus")
    /\ calls[1].records = <<"late", "present", "absent">>
    /\ calls[1].res = Some("absent")

\* C31: the risk level is high or critical whenever the rate is below 75, and
\* whenever there are 3 or more consecutive absences.
C31_HighBelowSeventyFive ==
    C26_Returned("getAttendanceRiskLevel") =>
        ((calls[1].attendanceRate < 75 \/ calls[1].consecutiveAbsences >= 3)
            => calls[1].res \in {"high", "critical"})

\* C32: deleteSchedule on a slot with at least one session succeeds whatever the
\* softDelete flag (and then leaves the slot stored, inactive).
C32_DeleteWithSessionsIsForcedSoft ==
    \A id \in DOMAIN schedules :
        (\E s \in DOMAIN sessions : sessions[s].classScheduleId = id)
            => \A softDelete \in BOOLEAN : deleteScheduleOutcome(id, softDelete) = "ok"

\* C33: the slot of every stored session is stored, and a step takes a slot out
\* of the store only when no session refers to it.
C33_SessionSlotsStayStored ==
    /\ [](\A s \in DOMAIN sessions : sessions[s].classScheduleId \in DOMAIN schedules)
    /\ [][\A id \in DOMAIN schedules :
              id \notin DOMAIN schedules'
                  => \A s \in DOMAIN sessions : sessions[s].classScheduleId # id]_vars

\* a slot with a session has been deactivated, and a later slot without one
\* has been removed
C33_Witness ==
    /\ \E s \in DOMAIN sessions :
          /\ sessions[s].classScheduleId \in DOMAIN schedules
          /\ ~schedules[sessions[s].classScheduleId].isActive
    /\ \E id \in 1..(nextScheduleId - 1) : id \notin DOMAIN schedules

\* C34: no two active slots with the same day and period that share a teacher
\* or a class overlap, and every stored interval has its end after its start.
C34_ActiveSlotsNeverOverlap ==
    \A i, j \in DOMAIN schedules :
        /\ schedules[i].startTime < schedules[i].endTime
        /\ (/\ i < j
            /\ schedules[i].isActive /\ schedules[j].isActive
            /\ schedules[i].dayOfWeek = schedules[j].dayOfWeek
            /\ schedules[i].academicPeriodId = schedules[j].academicPeriodId
            /\ \/ schedules[i].teacherId = schedules[j].teacherId
               \/ schedules[i].classId = schedules[j].classId)
               => \/ schedules[i].endTime <= schedules[j].startTime
                  \/ schedules[j].endTime <= schedules[i].startTime

\* C35: of two concurrent status updates of one session, one of them to
\* completed or cancelled, at most one succeeds.
C35_AtMostOneStatusUpdateSucceeds ==
    \A a, b \in DOMAIN calls :
        (/\ a # b
         /\ calls[a].sessionId = calls[b].sessionId
         /\ calls[a].status \in TerminalStatuses)
            => ~(calls[a].res = "ok" /\ calls[b].res = "ok")

\* C36: a session has a completion timestamp iff its status is completed or
\* cancelled, and the timestamp, once set, never changes.
C36_EndedAtIffTerminal ==
    /\ [](\A s \in DOMAIN sessions :
              sessions[s].endedAt # Null
                  <=> sessions[s].status \in {"completed", "cancelled"})
    /\ [][\A s \in DOMAIN sessions :
              sessions[s].endedAt # Null => sessions'[s].endedAt = sessions[s].endedAt]_vars

\* a cancelled session whose timestamp is an instant that has passed
C36_Witness ==
    \E s \in DOMAIN sessions :
        /\ sessions[s].status = "cancelled"
        /\ sessions[s].endedAt # Null
        /\ Val(sessions[s].endedAt) > 470
        /\ Val(sessions[s].endedAt) < now

\* C37: for every student, getActiveSessions returns exactly the sessions on
\* which a studentCheckIn of that student would succeed now: the ongoing
\* sessions in which the student's record is absent.
C37_ActiveSessionsAreCheckInSessions ==
    \A st \in StudentIds :
        /\ getActiveSessions(st)
               = {s \in DOMAIN sessions : studentCheckInOutcome(s, st) = "ok"}
        /\ getActiveSessions(st)
               = {s \in DOMAIN sessions :
                     /\ sessions[s].status = "ongoing"
                     /\ \E a \in DOMAIN attendances :
                           /\ attendances[a].attendanceSessionId = s
                           /\ attendances[a].studentId = st
                           /\ attendances[a].status = "absent"}

\* in an ongoing session one student is still to check in and the other, who
\* has checked in, is not
C37_Witness ==
    \E s \in DOMAIN sessions, a \in DOMAIN attendances :
        /\ getActiveSessions(1) = {s}
        /\ getActiveSessions(2) = {}
        /\ sessions[s].status = "ongoing"
        /\ attendances[a].attendanceSessionId = s
        /\ attendances[a].studentId = 2
        /\ attendances[a].attendanceMethod = Some("face_recognition")

\* the slot of class 2 and teacher 2 at the time of SlotA
C38_SlotB == [SlotA EXCEPT !.classId = 2, !.teacherId = 2]

\* a batch with a candidate that conflicts with a stored slot is refused,
\* wherever the candidate stands in the batch
C38_Refused ==
    \A batch \in UNION {[1..n -> {SlotA, C38_SlotB}] : n \in 1..MaxBatch} :
        (\E i \in 1..Len(batch) : checkTimeConflict(batch[i], Null) # "none")
            => bulkCreateSchedulesOutcome(batch) = "Conflict"

\* a step changes a slot only as a call that succeeds on it does
C38_SlotsKept ==
    /\ \A id \in DOMAIN schedules' \ DOMAIN schedules :
          checkTimeConflict(schedules'[id], Null) = "none"
    /\ \A id \in DOMAIN schedules \ DOMAIN schedules' :
          deleteScheduleOutcome(id, FALSE) = "ok"
    /\ \A id \in DOMAIN schedules \cap DOMAIN schedules' :
          schedules'[id] # schedules[id]
              => \/ /\ deleteScheduleOutcome(id, TRUE) = "ok"
                    /\ schedules'[id] = [schedules[id] EXCEPT !.isActive = FALSE]
                 \/ \E t \in Teachers :
                       /\ updateScheduleOutcome(id, Reassign(t)) = "ok"
                       /\ schedules'[id] = [schedules[id] EXCEPT !.teacherId = t]

\* a step changes a session or an attendance record only as a call that
\* succeeds on it does
C38_SessionsKept ==
    /\ \A s \in DOMAIN sessions' \ DOMAIN sessions :
          createSessionOutcome(sessions'[s].classScheduleId, sessions'[s].date,
                               sessions'[s].createdBy) = "ok"
    /\ \A s \in DOMAIN sessions :
          sessions'[s] # sessions[s]
              => updateSessionStatusOutcome(s, sessions'[s].status,
                                            sessions[s].createdBy) = "ok"
    /\ \A a \in DOMAIN attendances :
          attendances'[a] # attendances[a]
              => \/ \E v \in AttendanceStatuses :
                       markSingleAttendanceOutcome(a, v, SessionOf(a).createdBy) = "ok"
                 \/ studentCheckInOutcome(attendances[a].attendanceSessionId,
                                          attendances[a].studentId) = "ok"

\* C38: a call that fails leaves every slot, session and attendance record as
\* it was: the store changes only by calls that succeed, and a batch of
\* bulkCreateSchedules with a conflicting candidate is refused and stores none
\* of its slots.
C38_FailedCallsChangeNothing ==
    []C38_Refused /\ [][C38_SlotsKept /\ C38_SessionsKept]_vars

\* slot 1 is active and has a completed session, so that a batch of the free
\* slot and the taken one, a second session of the date and a further status
\* update are all refused
C38_Witness ==
    /\ 1 \in DOMAIN schedules /\ schedules[1].isActive /\ nextScheduleId = 2
    /\ checkTimeConflict(C38_SlotB, Null) = "none"
    /\ bulkCreateSchedulesOutcome(<<C38_SlotB, SlotA>>) = "Conflict"
    /\ \E s \in DOMAIN sessions :
          /\ sessions[s].status = "completed"
          /\ sessions[s].classScheduleId = 1
          /\ createSessionOutcome(1, 0, schedules[1].teacherId) = "Conflict"
          /\ updateSessionStatusOutcome(s, "cancelled", sessions[s].createdBy)
                 = "InvalidTransition"

====
